---------------------------- MODULE Spec2Model ----------------------------
(***************************************************************************)
(* A model of the rlvideo timeline engine: regions, cuts, the Cuts         *)
(* collection with its region index, the section algorithm, ProjectData,   *)
(* the Project with its transactions and events, and the proxy loader.     *)
(*                                                                         *)
(* Python values are modelled as follows.                                  *)
(*  - a namedtuple is a record with the same field names;                  *)
(*  - a dict is a sequence of [key, value] entries in insertion order      *)
(*    (Python dicts keep insertion order; equality ignores it);            *)
(*  - a raised exception is the record [raised |-> <kind>], propagated by  *)
(*    every caller; None is the record [none |-> TRUE];                    *)
(*  - ids are integers: uuid4().hex is an integer no object holds, ids     *)
(*    given by callers are the integers of ExplicitIds.                    *)
(***************************************************************************)
EXTENDS Integers, Sequences, FiniteSets, TLC

VARIABLES
    project_data,        \* Project.project_data
    current_transaction, \* Project.current_transaction (TxNone or a Transaction)
    uuid_counter,        \* uuid4() values drawn so far (Cuts specifications)
    disk,                \* Project.path and the file there (NoFile when absent)
    background_worker,   \* which worker the Project was constructed with
    mlt_producers,       \* ProxySourceLoader.mlt_producers
    jobs,                \* BackgroundWorker.jobs
    current_job,         \* BackgroundWorker.current_job
    threads,             \* started threads whose work_fn has not ended
    main_queue,          \* callbacks handed to on_main_thread_fn, not yet run
    last,                \* what the last handler did: events, errors, saves
    cuts,                \* a stand-alone Cuts value (Cuts specifications)
    sections,            \* result of split_into_sections (Sections specification)
    rectangle_map,       \* RectangleMap.map (RectangleMap specification)
    down_action,         \* CustomDrawWidget.down_action (Drag specification)
    timeline,            \* Timeline.tmp_* fields (Drag specification)
    pc                   \* position of the stand-alone specifications

vars == <<project_data, current_transaction, uuid_counter, disk,
          background_worker, mlt_producers, jobs, current_job, threads,
          main_queue, last, cuts, sections, rectangle_map, down_action,
          timeline, pc>>

---------------------------------------------------------------------------
(* Bounds of the model.                                                    *)

MaxUuid == 3
MaxCuts == 2
MaxPosition == 150
MaxSectionCuts == 3
MaxSectionEnd == 160
MaxSources == 1
MaxEnd == 100

(* Program constants.                                                      *)

DEFAULT_REGION_GROUP_SIZE == 100

---------------------------------------------------------------------------
(* Exceptions and None.                                                    *)

Raise(kind) == [raised |-> kind]
Raised(x) == "raised" \in DOMAIN x
None == [none |-> TRUE]
IsNone(x) == "none" \in DOMAIN x

Max(a, b) == IF a >= b THEN a ELSE b
Min(a, b) == IF a <= b THEN a ELSE b

---------------------------------------------------------------------------
(* Python dicts: insertion-ordered sequences of entries.                   *)

EmptyDict == << >>
DictKeys(d) == {d[i].key : i \in DOMAIN d}
DictHas(d, k) == \E i \in DOMAIN d : d[i].key = k
DictIndex(d, k) == CHOOSE i \in DOMAIN d : d[i].key = k
DictGet(d, k) == d[DictIndex(d, k)].value
DictGetDefault(d, k, default) == IF DictHas(d, k) THEN DictGet(d, k) ELSE default
DictSet(d, k, v) ==
    IF DictHas(d, k)
    THEN [d EXCEPT ![DictIndex(d, k)] = [key |-> k, value |-> v]]
    ELSE Append(d, [key |-> k, value |-> v])
DictDel(d, k) == SelectSeq(d, LAMBDA e : e.key # k)
DictValues(d) == [i \in DOMAIN d |-> d[i].value]
(* d1 == d2: the same keys with equal values, whatever the order.          *)
DictEq(d1, d2) ==
    /\ DictKeys(d1) = DictKeys(d2)
    /\ \A k \in DictKeys(d1) : DictGet(d1, k) = DictGet(d2, k)

(* list.remove(x): drops the first occurrence of x.                        *)
ListRemove(l, x) ==
    LET i == CHOOSE j \in DOMAIN l : l[j] = x /\ \A m \in 1..(j-1) : l[m] # x
    IN  [j \in 1..(Len(l)-1) |-> IF j < i THEN l[j] ELSE l[j+1]]
ListHas(l, x) == \E i \in DOMAIN l : l[i] = x

(* The elements of a finite set of integers in ascending order, the order  *)
(* in which CPython iterates set(range(a, b)).                             *)
RECURSIVE SetToSortedSeq(_)
SetToSortedSeq(S) ==
    IF S = {} THEN << >>
    ELSE LET m == CHOOSE x \in S : \A y \in S : x <= y
         IN  <<m>> \o SetToSortedSeq(S \ {m})

---------------------------------------------------------------------------
(* Region (domain/region.py).                                              *)

(* Region(start, end): __init__ rejects start >= end.                      *)
Region(start, end) ==
    IF start >= end THEN Raise("ValueError") ELSE [start |-> start, end |-> end]

RegionLength(r) == r.end - r.start

(* Mutant: a region is listed in the bucket of its first frame only.       *)
GetGroups_FirstGroupOnly(r, group_size) ==
    {r.start \div group_size}

(* Region.get_groups: set(range(start//size, (end-1)//size + 1)).          *)
GetGroups(r, group_size) ==
    (r.start \div group_size) .. ((r.end - 1) \div group_size)

(* namedtuple._replace builds the tuple without running __init__, so the   *)
(* three operations below never raise.                                     *)
ResizeTo(r, size) == [r EXCEPT !.end = r.start + size]
ShortenLeft(r, amount) == [r EXCEPT !.start = r.start + amount]
MoveEnd(r, amount) == [r EXCEPT !.end = r.end + amount]

(* Region.scale: int(start*factor), int(end*factor). The factor is the     *)
(* fraction num/den; int() drops the fraction of a non-negative number.    *)
Scale(r, num, den) ==
    [r EXCEPT !.start = (r.start * num) \div den, !.end = (r.end * num) \div den]

(* Region.get_overlap                                                      *)
RegionGetOverlap(a, b) ==
    IF b.end <= a.start \/ b.start >= a.end
    THEN None
    ELSE Region(Max(a.start, b.start), Min(a.end, b.end))

(* Mutant: regions that only touch are not merged.                         *)
RegionUnion_KeepsAdjacentApart(a, b) ==
    IF b.end <= a.start \/ b.start >= a.end
    THEN <<a, b>>
    ELSE <<Region(Min(a.start, b.start), Max(a.end, b.end))>>

(* Region.union: a list of one or two regions.                             *)
RegionUnion(a, b) ==
    IF b.end < a.start \/ b.start > a.end
    THEN <<a, b>>
    ELSE <<Region(Min(a.start, b.start), Max(a.end, b.end))>>

---------------------------------------------------------------------------
(* Cut (domain/cut.py).                                                    *)

CutSource(source_id) == [source_id |-> source_id]

(* Cut.new / Cut.test_instance                                             *)
NewCut(source, in_out, position, id, mix_strategy) ==
    [source |-> source, in_out |-> in_out, position |-> position, id |-> id,
     mix_strategy |-> mix_strategy, volume |-> 0, speed |-> 1]

CutLength(cut) == RegionLength(cut.in_out)
CutStart(cut) == cut.position
CutEnd(cut) == cut.position + CutLength(cut)

(* Cut.region: builds a Region, so it raises for a cut of length <= 0.     *)
CutRegion(cut) == Region(cut.position, cut.position + CutLength(cut))

(* Cut.get_region_groups                                                   *)
GetRegionGroups(cut, group_size) ==
    LET r == CutRegion(cut)
    IN  IF Raised(r) THEN r ELSE [groups |-> GetGroups(r, group_size)]

WithId(cut, id) == [cut EXCEPT !.id = id]
WithMixStrategy(cut, mix_strategy) == [cut EXCEPT !.mix_strategy = mix_strategy]
WithVolume(cut, volume) == [cut EXCEPT !.volume = volume]

(* Cut.move                                                                *)
CutMove(cut, delta) == [cut EXCEPT !.position = Max(0, cut.position + delta)]

(* Mutant: the amount is not limited to length - 1.                        *)
CutMoveLeft_NoLengthLimit(cut, amount) ==
    LET a1 == Max(amount, -cut.in_out.start)
        a2 == Max(a1, -cut.position)
    IN  [cut EXCEPT !.in_out = [cut.in_out EXCEPT !.start = cut.in_out.start + a2],
                    !.position = cut.position + a2]

(* Cut.move_left                                                           *)
CutMoveLeft(cut, amount) ==
    LET a1 == Max(amount, -cut.in_out.start)
        a2 == Max(a1, -cut.position)
        a3 == Min(a2, CutLength(cut) - 1)
    IN  [cut EXCEPT !.in_out = [cut.in_out EXCEPT !.start = cut.in_out.start + a3],
                    !.position = cut.position + a3]

(* Mutant: the second half keeps the position of the cut.                  *)
CutSplit_SamePosition(cut, position, u1, u2) ==
    LET delta == position - CutStart(cut)
    IN  << WithId([cut EXCEPT !.in_out = ResizeTo(cut.in_out, delta)], u1),
           WithId([cut EXCEPT !.in_out = ShortenLeft(cut.in_out, delta)], u2) >>

(* Cut.split: two halves with ids u1 and u2 drawn by with_unique_id.       *)
CutSplit(cut, position, u1, u2) ==
    LET delta == position - CutStart(cut)
    IN  << WithId([cut EXCEPT !.in_out = ResizeTo(cut.in_out, delta)], u1),
           WithId([cut EXCEPT !.in_out = ShortenLeft(cut.in_out, delta),
                              !.position = cut.position + delta], u2) >>

(* Cut.get_overlap                                                         *)
CutGetOverlap(a, b) == RegionGetOverlap(CutRegion(a), CutRegion(b))

(* isinstance(cut.source, Cut)                                             *)
SourceIsCut(cut) == "in_out" \in DOMAIN cut.source

(* Cut.get_source_cut                                                      *)
RECURSIVE GetSourceCut(_)
GetSourceCut(cut) ==
    IF SourceIsCut(cut) THEN GetSourceCut(cut.source) ELSE cut

(* Cut.get_source_id                                                       *)
RECURSIVE GetSourceId(_)
GetSourceId(cut) ==
    IF SourceIsCut(cut) THEN GetSourceId(cut.source) ELSE cut.source.source_id

(* Mutant: the sub-cut starts at the parent's in point.                    *)
CutCreateCut_FromInPoint(cut, region) ==
    LET overlap == RegionGetOverlap(CutRegion(cut), region)
    IN  IF IsNone(overlap) THEN None
        ELSE IF overlap.start = CutStart(cut) /\ overlap.end = CutEnd(cut)
        THEN cut
        ELSE [cut EXCEPT !.source = cut,
                         !.in_out = Region(cut.in_out.start,
                                           cut.in_out.start + RegionLength(overlap)),
                         !.position = overlap.start]

(* Cut.create_cut                                                          *)
CutCreateCut(cut, region) ==
    LET overlap == RegionGetOverlap(CutRegion(cut), region)
    IN  IF IsNone(overlap) THEN None
        ELSE IF overlap.start = CutStart(cut) /\ overlap.end = CutEnd(cut)
        THEN cut
        ELSE LET in_out == Region(cut.in_out.start + overlap.start - CutStart(cut),
                                  cut.in_out.end - CutEnd(cut) + overlap.end)
             IN  IF Raised(in_out) THEN in_out
                 ELSE [cut EXCEPT !.source = cut, !.in_out = in_out,
                                  !.position = overlap.start]

(* The functions callers pass to modify, as data.                          *)
ApplyFn(fn, cut) ==
    CASE fn.op = "move" -> CutMove(cut, fn.arg)
      [] fn.op = "move_left" -> CutMoveLeft(cut, fn.arg)
      [] fn.op = "with_mix_strategy" -> WithMixStrategy(cut, fn.arg)
      [] fn.op = "with_volume" -> WithVolume(cut, fn.arg)
      [] OTHER -> cut

---------------------------------------------------------------------------
(* RegionToCuts (domain/cut.py): region_number -> list of cut ids.         *)

RegionToCutsEmpty == [region_number_to_cut_ids |-> EmptyDict]

(* RegionToCuts.add_cut_to_regions, group_numbers in iteration order.      *)
RECURSIVE AddCutToRegionsSeq(_, _, _)
AddCutToRegionsSeq(d, cut_id, numbers) ==
    IF numbers = << >> THEN d
    ELSE LET old_ids == DictGetDefault(d, Head(numbers), << >>)
             new_ids == IF ListHas(old_ids, cut_id) THEN old_ids
                        ELSE Append(old_ids, cut_id)
         IN  AddCutToRegionsSeq(DictSet(d, Head(numbers), new_ids), cut_id,
                                Tail(numbers))

AddCutToRegions(r, cut_id, group_numbers) ==
    [region_number_to_cut_ids |->
        AddCutToRegionsSeq(r.region_number_to_cut_ids, cut_id,
                           SetToSortedSeq(group_numbers))]

(* RegionToCuts.remove_cut_from_regions: KeyError for a bucket that does   *)
(* not exist, ValueError (list.remove) for an id the bucket does not hold. *)
RECURSIVE RemoveCutFromRegionsSeq(_, _, _)
RemoveCutFromRegionsSeq(d, cut_id, numbers) ==
    IF numbers = << >> THEN [region_number_to_cut_ids |-> d]
    ELSE IF ~DictHas(d, Head(numbers)) THEN Raise("KeyError")
    ELSE LET old_ids == DictGet(d, Head(numbers))
         IN  IF ~ListHas(old_ids, cut_id) THEN Raise("ValueError")
             ELSE RemoveCutFromRegionsSeq(
                      DictSet(d, Head(numbers), ListRemove(old_ids, cut_id)),
                      cut_id, Tail(numbers))

(* Mutant: the id is removed from the first of the buckets only.           *)
RemoveCutFromRegions_FirstOnly(r, cut_id, group_numbers) ==
    RemoveCutFromRegionsSeq(r.region_number_to_cut_ids, cut_id,
                            SubSeq(SetToSortedSeq(group_numbers), 1, 1))

RemoveCutFromRegions(r, cut_id, group_numbers) ==
    RemoveCutFromRegionsSeq(r.region_number_to_cut_ids, cut_id,
                            SetToSortedSeq(group_numbers))

(* RegionToCuts.get_cuts_in_region                                         *)
GetCutsInRegion(r, region_number) ==
    DictGetDefault(r.region_number_to_cut_ids, region_number, << >>)

(* RegionToCuts.iter_groups: the buckets' id lists in dict order.          *)
IterGroups(r) == DictValues(r.region_number_to_cut_ids)

---------------------------------------------------------------------------
(* Cuts (domain/cut.py).                                                   *)

CutsEmpty ==
    [cut_map |-> EmptyDict, region_to_cuts |-> RegionToCutsEmpty,
     region_group_size |-> DEFAULT_REGION_GROUP_SIZE]

(* a == b on Cuts: the namedtuples compare field by field.                 *)
CutsEq(a, b) ==
    /\ ~Raised(a) /\ ~Raised(b)
    /\ DictEq(a.cut_map, b.cut_map)
    /\ DictEq(a.region_to_cuts.region_number_to_cut_ids,
              b.region_to_cuts.region_number_to_cut_ids)
    /\ a.region_group_size = b.region_group_size

(* Cuts.get: KeyError for an unknown id.                                   *)
CutsGet(c, id) ==
    IF DictHas(c.cut_map, id) THEN DictGet(c.cut_map, id) ELSE Raise("KeyError")

(* Cuts.add, for one cut.                                                  *)
CutsAdd(c, cut) ==
    IF DictHas(c.cut_map, cut.id) THEN Raise("ValueError")
    ELSE LET Index(groups) ==
                 IF Raised(groups) THEN groups
                 ELSE [c EXCEPT
                         !.cut_map = DictSet(c.cut_map, cut.id, cut),
                         !.region_to_cuts =
                             AddCutToRegions(c.region_to_cuts, cut.id,
                                             groups.groups)]
         IN  Index(GetRegionGroups(cut, c.region_group_size))

(* Cuts.add for several cuts, in order.                                    *)
RECURSIVE CutsAddAll(_, _)
CutsAddAll(c, cutseq) ==
    IF cutseq = << >> THEN c
    ELSE LET Rest(c1) == IF Raised(c1) THEN c1 ELSE CutsAddAll(c1, Tail(cutseq))
         IN  Rest(CutsAdd(c, Head(cutseq)))

(* Cuts.remove                                                             *)
CutsRemove(c, cut_id) ==
    IF ~DictHas(c.cut_map, cut_id) THEN Raise("KeyError")
    ELSE LET Removed(r) ==
                 IF Raised(r) THEN r
                 ELSE [c EXCEPT !.cut_map = DictDel(c.cut_map, cut_id),
                                !.region_to_cuts = r]
             Unindex(groups) ==
                 IF Raised(groups) THEN groups
                 ELSE Removed(RemoveCutFromRegions(c.region_to_cuts, cut_id,
                                                   groups.groups))
         IN  Unindex(GetRegionGroups(DictGet(c.cut_map, cut_id),
                                     c.region_group_size))

(* Cuts.modify from the point where fn(old_cut) has returned new_cut (or   *)
(* raised); cut_id is in the map.                                          *)
CutsModifyTo(c, cut_id, new_cut) ==
    LET Reindex(r1, new_groups) ==
            IF Raised(r1) THEN r1
            ELSE IF Raised(new_groups) THEN new_groups
            ELSE [c EXCEPT
                    !.cut_map = DictSet(c.cut_map, cut_id, new_cut),
                    !.region_to_cuts =
                        AddCutToRegions(r1, new_cut.id, new_groups.groups)]
        Unindex(old_cut, old_groups) ==
            IF Raised(old_groups) THEN old_groups
            ELSE Reindex(RemoveCutFromRegions(c.region_to_cuts, old_cut.id,
                                              old_groups.groups),
                         GetRegionGroups(new_cut, c.region_group_size))
    IN  IF Raised(new_cut) THEN new_cut
        ELSE Unindex(DictGet(c.cut_map, cut_id),
                     GetRegionGroups(DictGet(c.cut_map, cut_id),
                                     c.region_group_size))

(* Cuts.modify: ValueError for an unknown id, before fn is called.         *)
CutsModify(c, cut_id, fn) ==
    IF ~DictHas(c.cut_map, cut_id) THEN Raise("ValueError")
    ELSE CutsModifyTo(c, cut_id, ApplyFn(fn, DictGet(c.cut_map, cut_id)))

(* min(diffs) of Cuts.ripple_delete                                        *)
MinOf(S) == CHOOSE x \in S : \A y \in S : x <= y

RECURSIVE RippleMoveAll(_, _, _)
RippleMoveAll(c, ids, delta) ==
    IF ids = << >> THEN c
    ELSE LET Rest(c1) ==
                 IF Raised(c1) THEN c1 ELSE RippleMoveAll(c1, Tail(ids), delta)
         IN  Rest(CutsModify(c, Head(ids), [op |-> "move", arg |-> delta]))

(* Mutant: the later cuts move left by the length of the deleted cut.      *)
CutsRippleDelete_ByLength(c, cut_id) ==
    LET Ripple(c1, ids, length) ==
            IF Raised(c1) THEN c1
            ELSE IF ids = << >> THEN Raise("ValueError")
            ELSE RippleMoveAll(c1, ids, -length)
        Ids(later) == [i \in DOMAIN later |-> later[i].id]
        Delete(cut_to_delete) ==
            IF Raised(cut_to_delete) THEN cut_to_delete
            ELSE Ripple(CutsRemove(c, cut_id),
                        Ids(SelectSeq(DictValues(c.cut_map),
                                LAMBDA cut : CutStart(cut) > CutStart(cut_to_delete))),
                        CutLength(cut_to_delete))
    IN  Delete(CutsGet(c, cut_id))

(* Cuts.ripple_delete: min() of an empty list raises ValueError.           *)
CutsRippleDelete(c, cut_id) ==
    LET Move(c1, ids, diffs) ==
            IF diffs = {} THEN Raise("ValueError")
            ELSE RippleMoveAll(c1, ids, -MinOf(diffs))
        Ripple(c1, start, later) ==
            Move(c1, [i \in DOMAIN later |-> later[i].id],
                 {CutStart(later[i]) - start : i \in DOMAIN later})
        Later(c1, start) ==
            IF Raised(c1) THEN c1
            ELSE Ripple(c1, start,
                        SelectSeq(DictValues(c1.cut_map),
                                  LAMBDA cut : CutStart(cut) > start))
        Delete(cut_to_delete) ==
            IF Raised(cut_to_delete) THEN cut_to_delete
            ELSE Later(CutsRemove(c, cut_id), CutStart(cut_to_delete))
    IN  Delete(CutsGet(c, cut_id))

(* Mutant: a half without frames is left out instead of being added.       *)
CutsSplit_SkipsEmptyHalf(c, cut_id, position, u1, u2) ==
    LET NonEmpty(halves) ==
            SelectSeq(halves, LAMBDA h : h.in_out.start < h.in_out.end)
        Add(c1, halves) == IF Raised(c1) THEN c1
                           ELSE CutsAddAll(c1, NonEmpty(halves))
        Split(cut_to_split) ==
            IF Raised(cut_to_split) THEN cut_to_split
            ELSE Add(CutsRemove(c, cut_to_split.id),
                     CutSplit(cut_to_split, position, u1, u2))
    IN  Split(CutsGet(c, cut_id))

(* Cuts.split                                                              *)
CutsSplit(c, cut_id, position, u1, u2) ==
    LET Add(c1, halves) == IF Raised(c1) THEN c1 ELSE CutsAddAll(c1, halves)
        Split(cut_to_split) ==
            IF Raised(cut_to_split) THEN cut_to_split
            ELSE Add(CutsRemove(c, cut_to_split.id),
                     CutSplit(cut_to_split, position, u1, u2))
    IN  Split(CutsGet(c, cut_id))

(* Cuts.end                                                                *)
CutsEnd(c) ==
    IF c.cut_map = << >> THEN 0
    ELSE LET ends == {CutEnd(c.cut_map[i].value) : i \in DOMAIN c.cut_map}
         IN  CHOOSE x \in ends : \A y \in ends : x >= y


---------------------------------------------------------------------------
(* sorted(items, key=...): Python's sort is stable. Items are records      *)
(* [key |-> <<a, b>>, value |-> v]; keys compare as tuples.                *)

KeyLess(k1, k2) == k1[1] < k2[1] \/ (k1[1] = k2[1] /\ k1[2] < k2[2])

StableSort(items) ==
    LET Rank(i) ==
            Cardinality({j \in DOMAIN items :
                            \/ KeyLess(items[j].key, items[i].key)
                            \/ (items[j].key = items[i].key /\ j < i)}) + 1
    IN  [r \in DOMAIN items |->
            items[CHOOSE i \in DOMAIN items : Rank(i) = r].value]

---------------------------------------------------------------------------
(* UnionRegions (domain/region.py): `regions` is the list built by add.    *)

RECURSIVE UnionFold(_, _)
UnionFold(merged, rest) ==
    IF rest = << >> THEN merged
    ELSE IF merged = << >> THEN UnionFold(<<Head(rest)>>, Tail(rest))
    ELSE UnionFold(SubSeq(merged, 1, Len(merged) - 1)
                       \o RegionUnion(merged[Len(merged)], Head(rest)),
                   Tail(rest))

(* Mutant: the regions are merged in the order they were added.            *)
UnionRegionsIter_Unsorted(regions) == UnionFold(<< >>, regions)

(* UnionRegions.__iter__                                                   *)
UnionRegionsIter(regions) ==
    UnionFold(<< >>,
              StableSort([i \in DOMAIN regions |->
                            [key |-> <<regions[i].start, 0>>, value |-> regions[i]]]))

---------------------------------------------------------------------------
(* Sections (domain/section.py, domain/cut.py).                            *)

SpaceCut(length) == [length |-> length]
IsSpaceCut(part) == "length" \in DOMAIN part
PartLength(part) == IF IsSpaceCut(part) THEN part.length ELSE CutLength(part)

RECURSIVE SumLengths(_)
SumLengths(parts) ==
    IF parts = << >> THEN 0 ELSE PartLength(Head(parts)) + SumLengths(Tail(parts))

(* PlaylistSection.__init__: asserts length == sum of the parts' lengths.  *)
PlaylistSection(length, parts) ==
    IF length # SumLengths(parts) THEN Raise("AssertionError")
    ELSE [type |-> "playlist", length |-> length, parts |-> parts]

(* MixSection.__init__: asserts every playlist has the mix's length.       *)
MixSection(length, playlists) ==
    IF \E i \in DOMAIN playlists : playlists[i].length # length
    THEN Raise("AssertionError")
    ELSE [type |-> "mix", length |-> length, playlists |-> playlists]

(* itertools.combinations(ids, 2), in its order.                           *)
RECURSIVE Combinations2(_)
Combinations2(ids) ==
    IF Len(ids) < 2 THEN << >>
    ELSE [j \in 1..(Len(ids) - 1) |-> <<ids[1], ids[j + 1]>>]
             \o Combinations2(Tail(ids))

RECURSIVE Flatten(_)
Flatten(seqs) == IF seqs = << >> THEN << >> ELSE Head(seqs) \o Flatten(Tail(seqs))

(* Mutant: only the first bucket of the index is searched for overlaps.    *)
OverlapsAdded_FirstGroupOnly(c) ==
    LET First(all) == IF all = << >> THEN << >> ELSE <<all[1]>>
        Pairs(groups) ==
            Flatten([i \in DOMAIN groups |-> Combinations2(groups[i])])
        Overlaps(pairs) ==
            [i \in DOMAIN pairs |->
                CutGetOverlap(DictGet(c.cut_map, pairs[i][1]),
                              DictGet(c.cut_map, pairs[i][2]))]
    IN  SelectSeq(Overlaps(Pairs(First(IterGroups(c.region_to_cuts)))),
                  LAMBDA o : ~IsNone(o))

(* The overlaps Cuts.get_regions_with_overlap adds to its UnionRegions.    *)
OverlapsAdded(c) ==
    LET Pairs(groups) ==
            Flatten([i \in DOMAIN groups |-> Combinations2(groups[i])])
        Overlaps(pairs) ==
            [i \in DOMAIN pairs |->
                CutGetOverlap(DictGet(c.cut_map, pairs[i][1]),
                              DictGet(c.cut_map, pairs[i][2]))]
    IN  SelectSeq(Overlaps(Pairs(IterGroups(c.region_to_cuts))),
                  LAMBDA o : ~IsNone(o))

(* Cuts.get_regions_with_overlap, iterated.                                *)
GetRegionsWithOverlap(c) == UnionRegionsIter(OverlapsAdded(c))

(* Cuts.yield_cuts_in_period                                               *)
RECURSIVE Dedupe(_, _)
Dedupe(ids, yielded) ==
    IF ids = << >> THEN << >>
    ELSE IF Head(ids) \in yielded THEN Dedupe(Tail(ids), yielded)
    ELSE <<Head(ids)>> \o Dedupe(Tail(ids), yielded \cup {Head(ids)})

YieldCutsInPeriod(c, period) ==
    LET Ids(groups) ==
            Flatten([i \in DOMAIN groups |->
                       GetCutsInRegion(c.region_to_cuts, groups[i])])
        Lookup(unique) ==
            [i \in DOMAIN unique |-> DictGet(c.cut_map, unique[i])]
    IN  Lookup(Dedupe(
            Ids(SetToSortedSeq(GetGroups(period, c.region_group_size))), {}))

(* Cuts.create_cut                                                         *)
CutsCreateCut(c, period) ==
    LET Subs(found) == [i \in DOMAIN found |-> CutCreateCut(found[i], period)]
        Collect(subs) ==
            IF \E i \in DOMAIN subs : Raised(subs[i]) THEN Raise("ValueError")
            ELSE CutsAddAll(CutsEmpty, SelectSeq(subs, LAMBDA x : ~IsNone(x)))
    IN  Collect(Subs(YieldCutsInPeriod(c, period)))

(* The loop of Cuts.extract_playlist_section over the sorted cuts.         *)
RECURSIVE PlaylistParts(_, _, _)
PlaylistParts(sorted, start, parts) ==
    IF sorted = << >> THEN [parts |-> parts, start |-> start]
    ELSE LET cut == Head(sorted)
         IN  IF CutStart(cut) < start THEN Raise("Cut overlaps start")
             ELSE PlaylistParts(
                      Tail(sorted), CutEnd(cut),
                      (IF CutStart(cut) > start
                       THEN Append(parts, SpaceCut(CutStart(cut) - start))
                       ELSE parts) \o <<cut>>)

(* Mutant: the space after the last cut of the region is left out.         *)
ExtractPlaylistSection_NoTrailingSpace(c, region) ==
    LET Sorted(values) ==
            StableSort([i \in DOMAIN values |->
                          [key |-> <<CutStart(values[i]), 0>>,
                           value |-> values[i]]])
        Finish(loop) ==
            IF Raised(loop) THEN loop
            ELSE IF region.end < loop.start THEN Raise("Cut overlaps end")
            ELSE PlaylistSection(RegionLength(region), loop.parts)
        Extract(sub) ==
            IF Raised(sub) THEN sub
            ELSE Finish(PlaylistParts(Sorted(DictValues(sub.cut_map)),
                                      region.start, << >>))
    IN  Extract(CutsCreateCut(c, region))

(* Cuts.extract_playlist_section                                           *)
ExtractPlaylistSection(c, region) ==
    LET Sorted(values) ==
            StableSort([i \in DOMAIN values |->
                          [key |-> <<CutStart(values[i]), 0>>,
                           value |-> values[i]]])
        Finish(loop) ==
            IF Raised(loop) THEN loop
            ELSE IF region.end < loop.start THEN Raise("Cut overlaps end")
            ELSE PlaylistSection(
                     RegionLength(region),
                     IF region.end > loop.start
                     THEN Append(loop.parts, SpaceCut(region.end - loop.start))
                     ELSE loop.parts)
        Extract(sub) ==
            IF Raised(sub) THEN sub
            ELSE Finish(PlaylistParts(Sorted(DictValues(sub.cut_map)),
                                      region.start, << >>))
    IN  Extract(CutsCreateCut(c, region))

(* Cuts.sort_cuts: sorted by the source cut's (start, end); an "over" cut  *)
(* is inserted at the front, an "under" cut appended.                      *)
RECURSIVE SortCutsLoop(_, _)
SortCutsLoop(sorted, acc) ==
    IF sorted = << >> THEN acc
    ELSE SortCutsLoop(Tail(sorted),
                      IF Head(sorted).mix_strategy = "over"
                      THEN <<Head(sorted)>> \o acc
                      ELSE Append(acc, Head(sorted)))

SortCuts(cutseq) ==
    LET Key(source_cut) == <<CutStart(source_cut), CutEnd(source_cut)>>
    IN  SortCutsLoop(
            StableSort([i \in DOMAIN cutseq |->
                          [key |-> Key(GetSourceCut(cutseq[i])),
                           value |-> cutseq[i]]]),
            << >>)

(* Cuts.extract_mix_section                                                *)
ExtractMixSection(c, region) ==
    LET Playlist(one) ==
            IF Raised(one) THEN one ELSE ExtractPlaylistSection(one, region)
        Playlists(sorted) ==
            [i \in DOMAIN sorted |-> Playlist(CutsAdd(CutsEmpty, sorted[i]))]
        Mix(playlists) ==
            IF \E i \in DOMAIN playlists : Raised(playlists[i])
            THEN playlists[CHOOSE i \in DOMAIN playlists :
                              /\ Raised(playlists[i])
                              /\ \A j \in 1..(i-1) : ~Raised(playlists[j])]
            ELSE MixSection(RegionLength(region), playlists)
        Extract(sub) ==
            IF Raised(sub) THEN sub
            ELSE Mix(Playlists(SortCuts(DictValues(sub.cut_map))))
    IN  Extract(CutsCreateCut(c, region))

(* The loop of Cuts.split_into_sections over the overlap regions; a        *)
(* Sections value is the record [sections |-> list].                       *)
RECURSIVE SectionsLoop(_, _, _, _)
SectionsLoop(c, overlaps, start, acc) ==
    LET Playlist(end) == ExtractPlaylistSection(c, Region(start, end))
        Last(end) ==
            IF end > start
            THEN LET Add(lastp) == IF Raised(lastp) THEN lastp
                                   ELSE [sections |-> Append(acc, lastp)]
                 IN  Add(Playlist(end))
            ELSE [sections |-> acc]
        Step(overlap, before, mix) ==
            IF Raised(before) THEN before
            ELSE IF Raised(mix) THEN mix
            ELSE SectionsLoop(c, Tail(overlaps), overlap.end,
                              (IF IsNone(before) THEN acc ELSE Append(acc, before))
                                  \o <<mix>>)
        Overlap(overlap) ==
            Step(overlap,
                 IF overlap.start > start THEN Playlist(overlap.start) ELSE None,
                 ExtractMixSection(c, overlap))
    IN  IF overlaps = << >> THEN Last(CutsEnd(c)) ELSE Overlap(Head(overlaps))

(* Cuts.split_into_sections                                                *)
SplitIntoSections(c) == SectionsLoop(c, GetRegionsWithOverlap(c), 0, << >>)

(* Sections.length                                                         *)
RECURSIVE SumSectionLengths(_)
SumSectionLengths(l) ==
    IF l = << >> THEN 0 ELSE Head(l).length + SumSectionLengths(Tail(l))
SectionsLength(s) == SumSectionLengths(s.sections)

---------------------------------------------------------------------------
(* Sources (domain/source.py, as domain/project.py constructs them).       *)

(* id=None, the default of add_clip and add_text_clip.                     *)
NoId == 0

FileSource(id, path, length) ==
    [type |-> "file", id |-> id, path |-> path, length |-> length]
TextSource(id, text) == [type |-> "text", id |-> id, text |-> text]

(* FileSource.create_cut / TextSource.create_cut; u is the id drawn by     *)
(* with_unique_id.                                                         *)
SourceCreateCut(source, start, end, u) ==
    IF source.type = "file" /\ (start < 0 \/ end > source.length)
    THEN Raise("ValueError")
    ELSE LET in_out == Region(start, end)
         IN  IF Raised(in_out) THEN in_out
             ELSE NewCut(CutSource(source.id), in_out, 0, u, "under")

(* limit_in_out: a file source keeps in_out inside [0, length], a text     *)
(* source has no limit.                                                    *)
LimitInOut(source, cut) ==
    IF source.type = "file"
    THEN [cut EXCEPT !.in_out = [start |-> Max(0, cut.in_out.start),
                                 end |-> Min(source.length, cut.in_out.end)]]
    ELSE cut

SourcesEmpty == [id_to_source |-> EmptyDict]

(* Sources.add                                                             *)
SourcesAdd(s, source) ==
    IF DictHas(s.id_to_source, source.id) THEN Raise("ValueError")
    ELSE [id_to_source |-> DictSet(s.id_to_source, source.id, source)]

(* Sources.get: KeyError for an unknown id.                                *)
SourcesGet(s, id) ==
    IF DictHas(s.id_to_source, id) THEN DictGet(s.id_to_source, id)
    ELSE Raise("KeyError")

(* Sources.get_ids                                                         *)
SourcesGetIds(s) == [i \in DOMAIN s.id_to_source |-> s.id_to_source[i].key]

---------------------------------------------------------------------------
(* ProjectData (domain/project.py).                                        *)

ProjectDataEmpty == [sources |-> SourcesEmpty, cuts |-> CutsEmpty]

(* a == b on ProjectData                                                   *)
ProjectDataEq(a, b) ==
    /\ ~Raised(a) /\ ~Raised(b)
    /\ DictEq(a.sources.id_to_source, b.sources.id_to_source)
    /\ CutsEq(a.cuts, b.cuts)

(* ProjectData.adjust_cut_in_out                                           *)
AdjustCutInOut(pd, cut) ==
    LET Limit(source) == IF Raised(source) THEN source ELSE LimitInOut(source, cut)
    IN  Limit(SourcesGet(pd.sources, cut.source.source_id))

(* ProjectData.add_source                                                  *)
ProjectDataAddSource(pd, source) ==
    LET With(s) == IF Raised(s) THEN s ELSE [pd EXCEPT !.sources = s]
    IN  With(SourcesAdd(pd.sources, source))

(* ProjectData.add_cut                                                     *)
ProjectDataAddCut(pd, cut) ==
    LET With(c) == IF Raised(c) THEN c ELSE [pd EXCEPT !.cuts = c]
        Add(adjusted) == IF Raised(adjusted) THEN adjusted
                         ELSE With(CutsAdd(pd.cuts, adjusted))
    IN  Add(AdjustCutInOut(pd, cut))

(* ProjectData.modify_cut: Cuts.modify with the function                  *)
(* lambda cut: adjust_cut_in_out(fn(cut)).                                 *)
ProjectDataModifyCut(pd, cut_id, fn) ==
    LET With(c) == IF Raised(c) THEN c ELSE [pd EXCEPT !.cuts = c]
    IN  With(IF ~DictHas(pd.cuts.cut_map, cut_id) THEN Raise("ValueError")
             ELSE CutsModifyTo(
                      pd.cuts, cut_id,
                      AdjustCutInOut(pd, ApplyFn(fn, DictGet(pd.cuts.cut_map,
                                                             cut_id)))))

(* ProjectData.ripple_delete                                               *)
ProjectDataRippleDelete(pd, cut_id) ==
    LET With(c) == IF Raised(c) THEN c ELSE [pd EXCEPT !.cuts = c]
    IN  With(CutsRippleDelete(pd.cuts, cut_id))

(* ProjectData.split                                                       *)
ProjectDataSplit(pd, cut_id, position, u1, u2) ==
    LET With(c) == IF Raised(c) THEN c ELSE [pd EXCEPT !.cuts = c]
    IN  With(CutsSplit(pd.cuts, cut_id, position, u1, u2))

(* ProjectData.get_source_ids                                              *)
GetSourceIds(pd) == SourcesGetIds(pd.sources)

---------------------------------------------------------------------------
(* Documents: the JSON a project is saved as. A JSON object is a dict, a   *)
(* source or a cut inside it is a record of its JSON members.              *)

SourceToJson(source) ==
    IF source.type = "file"
    THEN [type |-> "file", path |-> source.path, length |-> source.length]
    ELSE [type |-> "text", text |-> source.text]

SourceFromJson(id, json) ==
    IF json.type = "text" THEN TextSource(id, json.text)
    ELSE IF json.type = "file" THEN FileSource(id, json.path, json.length)
    ELSE Raise("ValueError")

(* Cut.to_json: the id is the key of the enclosing object, not a member.   *)
CutToJson(cut) ==
    [source |-> cut.source.source_id,
     in_out |-> [start |-> cut.in_out.start, end |-> cut.in_out.end],
     position |-> cut.position, mix_strategy |-> cut.mix_strategy,
     volume |-> cut.volume, speed |-> cut.speed]

(* Cut.from_json: Region.from_json validates the region.                   *)
CutFromJson(id, json) ==
    LET in_out == Region(json.in_out.start, json.in_out.end)
    IN  IF Raised(in_out) THEN in_out
        ELSE [source |-> CutSource(json.source), in_out |-> in_out,
              position |-> json.position, id |-> id,
              mix_strategy |-> json.mix_strategy,
              volume |-> IF "volume" \in DOMAIN json THEN json.volume ELSE 0,
              speed |-> IF "speed" \in DOMAIN json THEN json.speed ELSE 1]

(* Sources.to_json / Cuts.to_json                                          *)
SourcesToJson(s) ==
    [i \in DOMAIN s.id_to_source |->
        [key |-> s.id_to_source[i].key,
         value |-> SourceToJson(s.id_to_source[i].value)]]
CutsToJson(c) ==
    [i \in DOMAIN c.cut_map |->
        [key |-> c.cut_map[i].key, value |-> CutToJson(c.cut_map[i].value)]]

(* Sources.from_json / Cuts.from_json: rebuilt with add, entry by entry.   *)
RECURSIVE SourcesFromJsonLoop(_, _)
SourcesFromJsonLoop(s, json) ==
    IF json = << >> THEN s
    ELSE LET source == SourceFromJson(Head(json).key, Head(json).value)
         IN  IF Raised(source) THEN source
             ELSE LET s1 == SourcesAdd(s, source)
                  IN  IF Raised(s1) THEN s1
                      ELSE SourcesFromJsonLoop(s1, Tail(json))
SourcesFromJson(json) == SourcesFromJsonLoop(SourcesEmpty, json)

RECURSIVE CutsFromJsonLoop(_, _)
CutsFromJsonLoop(c, json) ==
    IF json = << >> THEN c
    ELSE LET cut == CutFromJson(Head(json).key, Head(json).value)
         IN  IF Raised(cut) THEN cut
             ELSE LET c1 == CutsAdd(c, cut)
                  IN  IF Raised(c1) THEN c1
                      ELSE CutsFromJsonLoop(c1, Tail(json))
CutsFromJson(json) == CutsFromJsonLoop(CutsEmpty, json)

(* ProjectData.to_json / ProjectData.from_json                             *)
ProjectDataToJson(pd) ==
    [sources |-> SourcesToJson(pd.sources), cuts |-> CutsToJson(pd.cuts)]
ProjectDataFromJson(json) ==
    LET s == SourcesFromJson(json.sources)
        c == CutsFromJson(json.cuts)
    IN  IF Raised(s) THEN s
        ELSE IF Raised(c) THEN c
        ELSE [sources |-> s, cuts |-> c]

(* ProjectData.load: the file at path when there is one, else empty.       *)
NoFile == [file |-> "absent"]
ProjectDataLoad(path, file) ==
    IF ~IsNone(path) /\ file # NoFile THEN ProjectDataFromJson(file)
    ELSE ProjectDataEmpty

---------------------------------------------------------------------------
(* Project, Transaction, ProxySourceLoader (domain/project.py) and the     *)
(* background workers (jobs.py). The operators below work on a record p of *)
(* the Project object and what it reaches: its fields project_data and     *)
(* current_transaction, the loader's mlt_producers, the worker's jobs and  *)
(* current_job, the callbacks waiting for the main thread, the file at     *)
(* Project.path, and, in p.ev, what the running handler has done so far:   *)
(* the exception in flight, the calls of set_project_data, the triggers of *)
(* the two events and whether the document was written.                    *)

NoEffects ==
    [raised |-> "none", set_project_data |-> 0, project_data_event |-> 0,
     producer_changed_event |-> 0, saved |-> FALSE, returned |-> None,
     uncached |-> {}]

Throw(p, kind) == [p EXCEPT !.ev.raised = kind]

(* uuid.uuid4().hex: an id that differs from every id some object holds.   *)
(* Ids are only compared for equality, so the id drawn is the k-th         *)
(* smallest integer that no part of the Project holds.                     *)
DataIds(pd) ==
    DictKeys(pd.sources.id_to_source) \cup DictKeys(pd.cuts.cut_map)
        \cup {pd.cuts.cut_map[i].value.source.source_id : i \in DOMAIN pd.cuts.cut_map}
DocumentIds(file) ==
    IF file = NoFile THEN {}
    ELSE DictKeys(file.sources) \cup DictKeys(file.cuts)
             \cup {file.cuts[i].value.source : i \in DOMAIN file.cuts}
UsedIds(p) ==
    DataIds(p.project_data)
      \cup (IF IsNone(p.current_transaction) THEN {}
            ELSE DataIds(p.current_transaction.initial_data))
      \cup DocumentIds(p.disk.file)
      \cup DictKeys(p.mlt_producers)
      \cup {p.jobs[i].source_id : i \in DOMAIN p.jobs}
      \cup (IF IsNone(p.current_job) THEN {} ELSE {p.current_job.source_id})
      \cup {p.threads[i].source_id : i \in DOMAIN p.threads}
      \cup {p.main_queue[i].source_id : i \in DOMAIN p.main_queue}
Uuid4(p, k) ==
    LET free == (1 .. (Cardinality(UsedIds(p)) + k)) \ UsedIds(p)
    IN  SetToSortedSeq(free)[k]
Failed(p) == p.ev.raised # "none"

(* Event.trigger: every listener is called once.                           *)
TriggerProjectData(p) ==
    [p EXCEPT !.ev.project_data_event = @ + 1]
(* The listeners of producer_changed ask the loader for the producers of   *)
(* the sources; uncached collects the source ids of the current data that  *)
(* had no entry in mlt_producers when they were called.                    *)
TriggerProducerChanged(p) ==
    [p EXCEPT !.ev.producer_changed_event = @ + 1,
              !.ev.uncached =
                  @ \cup (DictKeys(p.project_data.sources.id_to_source)
                             \ DictKeys(p.mlt_producers))]

(* Mutant: the data is replaced without telling the listeners.             *)
SetProjectData_NoTrigger(p, project_data_) ==
    [p EXCEPT !.project_data = project_data_, !.ev.set_project_data = @ + 1]

(* Project.set_project_data                                                *)
SetProjectData(p, project_data_) ==
    TriggerProjectData([p EXCEPT !.project_data = project_data_,
                                 !.ev.set_project_data = @ + 1])

(* Project.save: nothing without a path; the document is written to a      *)
(* temporary file that then replaces the file at path. io_fails: writing   *)
(* or renaming raises OSError and the file at path is left as it was.      *)
ProjectSave(p, io_fails) ==
    IF IsNone(p.disk.path) THEN p
    ELSE IF io_fails THEN Throw(p, "OSError")
    ELSE [p EXCEPT !.disk.file = ProjectDataToJson(p.project_data),
                   !.ev.saved = TRUE]

(* Mutant: a new transaction replaces the one in progress.                 *)
ProjectNewTransaction_Replaces(p, in_with_block) ==
    [p EXCEPT !.current_transaction =
                 [initial_data |-> p.project_data,
                  in_with_block |-> in_with_block]]

(* Transaction.__init__ via Project.new_transaction. in_with_block is not  *)
(* a field of Transaction: it records that the caller opened it with a     *)
(* `with` statement, whose __exit__ ends it.                               *)
ProjectNewTransaction(p, in_with_block) ==
    IF ~IsNone(p.current_transaction) THEN Throw(p, "ValueError")
    ELSE [p EXCEPT !.current_transaction =
                      [initial_data |-> p.project_data,
                       in_with_block |-> in_with_block]]

(* BackgroundWorker.start_next_job: the last job added is taken, a thread  *)
(* that runs its work_fn is started and the job becomes the current job.   *)
StartNextJob(p) ==
    IF p.jobs = << >> THEN p
    ELSE [p EXCEPT !.jobs = SubSeq(p.jobs, 1, Len(p.jobs) - 1),
                   !.threads = Append(@, p.jobs[Len(p.jobs)]),
                   !.current_job = p.jobs[Len(p.jobs)]]

(* Mutant: a job is started whether or not there is a current job.         *)
OnJobsChanged_AlwaysStarts(p) == StartNextJob(p)

(* BackgroundWorker.on_jobs_changed (display_status shows text only)       *)
OnJobsChanged(p) == IF IsNone(p.current_job) THEN StartNextJob(p) ELSE p

(* BackgroundWorker.add                                                    *)
WorkerAdd(p, job) == OnJobsChanged([p EXCEPT !.jobs = Append(p.jobs, job)])

(* ProxySourceLoader.load's store, the result_fn of its job.               *)
Store(p, source_id) ==
    TriggerProducerChanged(
        [p EXCEPT !.mlt_producers = DictSet(p.mlt_producers, source_id, "producer")])

(* ProxySourceLoader.load with BackgroundWorker.add or                     *)
(* NonThreadedBackgroundWorker.add; work_raises: load_proxy raises, which  *)
(* the non-threaded worker lets through to its caller.                     *)
ProxyLoad(p, source_id, work_raises) ==
    LET p1 == [p EXCEPT !.mlt_producers =
                           DictSet(p.mlt_producers, source_id, "loading")]
    IN  IF Raised(SourcesGet(p.project_data.sources, source_id))
        THEN Throw(p1, "KeyError")
        ELSE IF p.background_worker = "threaded"
        THEN WorkerAdd(p1, [source_id |-> source_id])
        ELSE IF work_raises THEN Throw(p1, "ValueError")
        ELSE Store(p1, source_id)

RECURSIVE EnsurePresentLoop(_, _, _)
EnsurePresentLoop(p, source_ids, work_raises) ==
    IF source_ids = << >> THEN p
    ELSE IF DictHas(p.mlt_producers, Head(source_ids))
    THEN EnsurePresentLoop(p, Tail(source_ids), work_raises)
    ELSE LET p1 == ProxyLoad(p, Head(source_ids), work_raises)
         IN  IF Failed(p1) THEN p1
             ELSE EnsurePresentLoop(p1, Tail(source_ids), work_raises)

(* ProxySourceLoader.ensure_present                                        *)
EnsurePresent(p, source_ids, work_raises) ==
    EnsurePresentLoop(
        [p EXCEPT !.mlt_producers =
                     SelectSeq(p.mlt_producers,
                               LAMBDA e : ListHas(source_ids, e.key))],
        source_ids, work_raises)

(* Mutant: the transaction is released only when the body did not raise.   *)
TransactionCleanup_NoFinally(p) ==
    IF Failed(p) THEN p ELSE [p EXCEPT !.current_transaction = None]

(* Transaction.cleanup: the finally clause, run whether or not the body    *)
(* of the with statement raised.                                           *)
TransactionCleanup(p) == [p EXCEPT !.current_transaction = None]

(* Mutant: reset publishes the current data again, not the snapshot.       *)
TransactionReset_KeepsData(p) == SetProjectData(p, p.project_data)

(* Transaction.reset                                                       *)
TransactionReset(p) == SetProjectData(p, p.current_transaction.initial_data)

(* Transaction.rollback                                                    *)
TransactionRollback(p) == TransactionCleanup(TransactionReset(p))

(* Mutant: commit saves without triggering producer_changed.               *)
TransactionCommit_NoTrigger(p, fail) ==
    LET p1 == EnsurePresent(p, GetSourceIds(p.project_data), fail = "work")
        p4 == ProjectSave(p1, fail = "save")
    IN  TransactionCleanup(IF Failed(p1) THEN p1 ELSE p4)

(* Transaction.commit. fail names the step that raises, if any: "work"     *)
(* (a proxy load run by the non-threaded worker), "listener" (a listener   *)
(* of producer_changed) or "save".                                         *)
TransactionCommit(p, fail) ==
    LET p1 == EnsurePresent(p, GetSourceIds(p.project_data), fail = "work")
        p2 == TriggerProducerChanged(p1)
        p3 == IF fail = "listener" THEN Throw(p2, "Exception") ELSE p2
        p4 == ProjectSave(p3, fail = "save")
    IN  TransactionCleanup(IF Failed(p1) THEN p1
                           ELSE IF Failed(p3) THEN p3
                           ELSE p4)

(* Mutant: __exit__ commits whether or not the body raised.                *)
TransactionExit_AlwaysCommits(p, fail) == TransactionCommit(p, fail)

(* Transaction.__exit__                                                    *)
TransactionExit(p, fail) ==
    IF ~Failed(p) THEN TransactionCommit(p, fail) ELSE TransactionRollback(p)

(* Transaction.modify                                                      *)
TransactionModify(p, cut_id, fn) ==
    LET pd == ProjectDataModifyCut(p.project_data, cut_id, fn)
    IN  IF Raised(pd) THEN Throw(p, pd.raised) ELSE SetProjectData(p, pd)

(* Transaction.ripple_delete                                               *)
TransactionRippleDelete(p, cut_id) ==
    LET pd == ProjectDataRippleDelete(p.project_data, cut_id)
    IN  IF Raised(pd) THEN Throw(p, pd.raised) ELSE SetProjectData(p, pd)

(* Transaction.split; the two halves draw two ids.                         *)
TransactionSplit(p, cut_id, position) ==
    LET pd == ProjectDataSplit(p.project_data, cut_id, position,
                               Uuid4(p, 1), Uuid4(p, 2))
    IN  IF Raised(pd) THEN Throw(p, pd.raised) ELSE SetProjectData(p, pd)

(* Mutant: the new cut stays at position 0.                                *)
TransactionAddSource_NotMoved(p, source, length) ==
    LET source1 == IF source.id = NoId
                   THEN [source EXCEPT !.id = Uuid4(p, 1)]
                   ELSE source
        pd1 == ProjectDataAddSource(p.project_data, source1)
    IN  IF Raised(pd1) THEN Throw(p, pd1.raised)
        ELSE LET p1 == SetProjectData(p, pd1)
                 cut == SourceCreateCut(source1, 0, length, Uuid4(p1, 1))
             IN  IF Raised(cut) THEN Throw(p1, cut.raised)
                 ELSE LET pd2 == ProjectDataAddCut(p1.project_data, cut)
                      IN  IF Raised(pd2) THEN Throw(p1, pd2.raised)
                          ELSE [SetProjectData(p1, pd2)
                                EXCEPT !.ev.returned = cut.id]

(* Transaction.add_source; the id of the new cut is returned.              *)
TransactionAddSource(p, source, length) ==
    LET source1 == IF source.id = NoId
                   THEN [source EXCEPT !.id = Uuid4(p, 1)]
                   ELSE source
        pd1 == ProjectDataAddSource(p.project_data, source1)
    IN  IF Raised(pd1) THEN Throw(p, pd1.raised)
        ELSE LET p1 == SetProjectData(p, pd1)
                 cut0 == SourceCreateCut(source1, 0, length, Uuid4(p1, 1))
             IN  IF Raised(cut0) THEN Throw(p1, cut0.raised)
                 ELSE LET cut == CutMove(cut0, CutsEnd(p1.project_data.cuts))
                          pd2 == ProjectDataAddCut(p1.project_data, cut)
                      IN  IF Raised(pd2) THEN Throw(p1, pd2.raised)
                          ELSE [SetProjectData(p1, pd2)
                                EXCEPT !.ev.returned = cut.id]

(* Transaction.add_clip; length is what Clip(path) calculates.             *)
TransactionAddClip(p, path, length, id) ==
    TransactionAddSource(p, FileSource(id, path, length), length)

(* Transaction.add_text_clip                                               *)
TransactionAddTextClip(p, text, length, id) ==
    TransactionAddSource(p, TextSource(id, text), length)

(* Project.ripple_delete: a with block around Transaction.ripple_delete.   *)
ProjectRippleDelete(p, cut_id, fail) ==
    LET p1 == ProjectNewTransaction(p, TRUE)
    IN  IF Failed(p1) THEN p1
        ELSE TransactionExit(TransactionRippleDelete(p1, cut_id), fail)

(* Project.split: a with block around Transaction.split.                   *)
ProjectSplit(p, cut_id, position, fail) ==
    LET p1 == ProjectNewTransaction(p, TRUE)
    IN  IF Failed(p1) THEN p1
        ELSE TransactionExit(TransactionSplit(p1, cut_id, position), fail)

(* on_job_done of BackgroundWorker.start_next_job, run on the main thread  *)
(* for the job whose thread queued it.                                     *)
OnJobDone(p, job) ==
    OnJobsChanged([Store(p, job.source_id) EXCEPT !.current_job = None])

(* foo of progress in BackgroundWorker.start_next_job, run on the main     *)
(* thread: set_progress changes the text shown only.                       *)
OnProgress(p, job) == OnJobsChanged(p)

---------------------------------------------------------------------------
(* Inputs of the stand-alone Cuts specifications.                          *)

InOuts == { [start |-> 0, end |-> 50], [start |-> 50, end |-> 150] }
Positions == { 0, 50 }
MixStrategies == { "over", "under" }
MoveDeltas == { -50, 100 }
MoveLeftAmounts == { -50, 50 }
SplitPositions == { 50, 100, 150 }
ModifyFns ==
    [op : {"move"}, arg : MoveDeltas]
      \cup [op : {"move_left"}, arg : MoveLeftAmounts]

(* Variables a specification does not use keep these values.               *)
Unused == << >>
ProjectUnused ==
    /\ project_data = Unused /\ current_transaction = Unused /\ disk = Unused
    /\ background_worker = Unused
    /\ mlt_producers = Unused /\ jobs = Unused /\ current_job = Unused
    /\ threads = Unused /\ main_queue = Unused
    /\ rectangle_map = Unused
    /\ down_action = Unused /\ timeline = Unused
ProjectUnchanged ==
    UNCHANGED <<project_data, current_transaction, disk, background_worker,
                mlt_producers, jobs, current_job, threads, main_queue,
                rectangle_map, down_action, timeline>>

(* The largest cut end the inputs may produce stays within MaxPosition.    *)
WithinBounds(c) ==
    /\ Len(c.cut_map) <= MaxCuts
    /\ \A i \in DOMAIN c.cut_map : CutEnd(c.cut_map[i].value) <= MaxPosition

(* The caller of a Cuts operation: a raise leaves the caller's value.      *)
CutsStep(op, result, uuids) ==
    /\ IF Raised(result)
       THEN cuts' = cuts
       ELSE WithinBounds(result) /\ cuts' = result
    /\ uuid_counter' = uuid_counter + uuids
    /\ uuid_counter + uuids <= MaxUuid
    /\ UNCHANGED <<last, sections, pc>>
    /\ ProjectUnchanged

(* cuts.add(Cut.test_instance(...)) with a fresh id, or with an id that is *)
(* already present.                                                        *)
CAdd ==
    \E in_out \in InOuts, position \in Positions, mix \in {"under"},
       dup \in BOOLEAN :
        \E id \in (IF dup THEN DictKeys(cuts.cut_map) ELSE {uuid_counter + 1}) :
            CutsStep("add",
                     CutsAdd(cuts, NewCut(CutSource(0), in_out, position, id, mix)),
                     IF dup THEN 0 ELSE 1)

CRemove ==
    \E id \in DictKeys(cuts.cut_map) \cup {0} :
        CutsStep("remove", CutsRemove(cuts, id), 0)

CModify ==
    \E id \in DictKeys(cuts.cut_map) \cup {0}, fn \in ModifyFns :
        CutsStep("modify", CutsModify(cuts, id, fn), 0)

CRippleDelete ==
    \E id \in DictKeys(cuts.cut_map) \cup {0} :
        CutsStep("ripple_delete", CutsRippleDelete(cuts, id), 0)

CSplit ==
    \E id \in DictKeys(cuts.cut_map) \cup {0}, position \in SplitPositions :
        CutsStep("split",
                 CutsSplit(cuts, id, position, uuid_counter + 1, uuid_counter + 2),
                 2)

InitCuts ==
    /\ cuts = CutsEmpty
    /\ uuid_counter = 0
    /\ last = Unused
    /\ sections = Unused
    /\ pc = "cuts"
    /\ ProjectUnused

NextCuts == CAdd \/ CRemove \/ CModify \/ CRippleDelete \/ CSplit

SpecCuts == InitCuts /\ [][NextCuts]_vars

---------------------------------------------------------------------------
(* C7: after any sequence of add, remove, modify, ripple_delete and split  *)
(* from the empty Cuts collection, the region index agrees with the cut    *)
(* map: an id is listed in bucket b exactly when its cut is in the map and *)
(* b is one of the groups of the cut's region, and no bucket lists an id   *)
(* twice.                                                                  *)
IndexConsistent(c) ==
    /\ \A i \in DOMAIN c.region_to_cuts.region_number_to_cut_ids :
          LET b == c.region_to_cuts.region_number_to_cut_ids[i].key
              ids == c.region_to_cuts.region_number_to_cut_ids[i].value
          IN  /\ \A j \in DOMAIN ids :
                    /\ DictHas(c.cut_map, ids[j])
                    /\ b \in GetGroups(CutRegion(DictGet(c.cut_map, ids[j])),
                                       c.region_group_size)
              /\ \A j, k \in DOMAIN ids : j # k => ids[j] # ids[k]
    /\ \A i \in DOMAIN c.cut_map :
          LET cut == c.cut_map[i].value
          IN  /\ ~Raised(CutRegion(cut))
              /\ \A b \in GetGroups(CutRegion(cut), c.region_group_size) :
                    ListHas(GetCutsInRegion(c.region_to_cuts, b), cut.id)

C7_IndexConsistent == IndexConsistent(cuts)

(* Two cuts share a bucket that lists them in the reverse of the map's     *)
(* order (a modify, ripple_delete or split re-listed one of them), and one *)
(* of the cuts spans two buckets.                                          *)
C7_Witness ==
    /\ Len(cuts.cut_map) = 2
    /\ \E i \in DOMAIN IterGroups(cuts.region_to_cuts) :
          IterGroups(cuts.region_to_cuts)[i]
              = <<cuts.cut_map[2].key, cuts.cut_map[1].key>>
    /\ \E i \in DOMAIN cuts.cut_map :
          Cardinality(GetGroups(CutRegion(cuts.cut_map[i].value),
                                cuts.region_group_size)) >= 2

---------------------------------------------------------------------------
(* The Sections specification: a Cuts collection is built from cuts at     *)
(* positions >= 0 (Cuts.from_list, then moves), and split_into_sections is *)
(* applied to it.                                                          *)

SectionInOuts == { [start |-> 0, end |-> 50], [start |-> 0, end |-> 120] }
SectionPositions == { 0, 40, 90 }
SectionMoves == { 100 }

InitSections ==
    /\ cuts = CutsEmpty
    /\ uuid_counter = 0
    /\ last = Unused
    /\ sections = Unused
    /\ pc = "build"
    /\ ProjectUnused

SAdd ==
    /\ pc = "build"
    /\ Len(cuts.cut_map) < MaxSectionCuts
    /\ \E in_out \in SectionInOuts, position \in SectionPositions,
          mix \in MixStrategies :
           cuts' = CutsAdd(cuts, NewCut(CutSource(0), in_out, position,
                                        uuid_counter + 1, mix))
    /\ uuid_counter' = uuid_counter + 1
    /\ UNCHANGED <<last, sections, pc>>
    /\ ProjectUnchanged

SMove ==
    /\ pc = "build"
    /\ \E id \in DictKeys(cuts.cut_map), delta \in SectionMoves :
          /\ cuts' = CutsModify(cuts, id, [op |-> "move", arg |-> delta])
          /\ CutsEnd(cuts') <= MaxSectionEnd
    /\ UNCHANGED <<uuid_counter, last, sections, pc>>
    /\ ProjectUnchanged

SSplitIntoSections ==
    /\ pc = "build"
    /\ sections' = SplitIntoSections(cuts)
    /\ pc' = "done"
    /\ UNCHANGED <<cuts, uuid_counter, last>>
    /\ ProjectUnchanged

NextSections == SAdd \/ SMove \/ SSplitIntoSections

SpecSections == InitSections /\ [][NextSections]_vars

(* The cuts of a playlist's parts.                                         *)
PlaylistCuts(playlist) == SelectSeq(playlist.parts, LAMBDA part : ~IsSpaceCut(part))

PlaylistWellFormed(playlist) ==
    /\ playlist.type = "playlist"
    /\ playlist.length = SumLengths(playlist.parts)
    /\ \A i \in DOMAIN playlist.parts : PartLength(playlist.parts[i]) > 0

(* All playlists of a Sections value, top-level and inside a mix.          *)
AllPlaylists(s) ==
    {s.sections[i] : i \in {j \in DOMAIN s.sections : s.sections[j].type = "playlist"}}
      \cup UNION {{s.sections[i].playlists[k] : k \in DOMAIN s.sections[i].playlists} :
                    i \in {j \in DOMAIN s.sections : s.sections[j].type = "mix"}}

(* C8: for a Cuts collection whose cuts have position >= 0,                *)
(* split_into_sections returns sections whose lengths sum to Cuts.end      *)
(* (none for the empty collection); every Playlist's parts sum to its      *)
(* length and every inner Playlist of a Mix has the Mix's length; no       *)
(* length assertion fails.                                                 *)
C8_SectionLengths ==
    pc = "done" =>
        /\ ~Raised(sections)
        /\ SectionsLength(sections) = CutsEnd(cuts)
        /\ (cuts.cut_map = << >> => sections.sections = << >>)
        /\ \A p \in AllPlaylists(sections) : PlaylistWellFormed(p)
        /\ \A i \in DOMAIN sections.sections :
              sections.sections[i].type = "mix" =>
                  \A k \in DOMAIN sections.sections[i].playlists :
                      sections.sections[i].playlists[k].length
                          = sections.sections[i].length

(* Three cuts gave a playlist with a space, then a mix, then a playlist.   *)
C8_Witness ==
    /\ pc = "done"
    /\ ~Raised(sections)
    /\ Len(cuts.cut_map) = 3
    /\ Len(sections.sections) >= 3
    /\ \E i \in DOMAIN sections.sections :
          /\ sections.sections[i].type = "playlist"
          /\ \E k \in DOMAIN sections.sections[i].parts :
                IsSpaceCut(sections.sections[i].parts[k])
    /\ \E i \in DOMAIN sections.sections :
          /\ sections.sections[i].type = "mix"
          /\ Len(sections.sections[i].playlists) >= 2

(* C9: for a Cuts collection whose cuts have position >= 0,                *)
(* split_into_sections raises neither "Cut overlaps start" nor "Cut        *)
(* overlaps end", and no two cuts of a Playlist (top-level or in a Mix)    *)
(* overlap on the timeline.                                                *)
C9_NoOverlapInPlaylist ==
    pc = "done" =>
        /\ ~Raised(sections)
        /\ \A p \in AllPlaylists(sections) :
              \A i, j \in DOMAIN PlaylistCuts(p) :
                  i # j => IsNone(CutGetOverlap(PlaylistCuts(p)[i],
                                                PlaylistCuts(p)[j]))

(* A top-level playlist holds two cuts, next to a mix of overlapping cuts. *)
C9_Witness ==
    /\ pc = "done"
    /\ ~Raised(sections)
    /\ \E i \in DOMAIN sections.sections :
          /\ sections.sections[i].type = "playlist"
          /\ Len(PlaylistCuts(sections.sections[i])) >= 2
    /\ \E i \in DOMAIN sections.sections : sections.sections[i].type = "mix"

---------------------------------------------------------------------------
(* The Project specification: a Project is constructed on a path (or on    *)
(* none) with one of the two workers, and its callers open transactions,   *)
(* edit, commit and roll back while the worker thread loads proxies.       *)

ExplicitIds == { 101 }
UnknownCutId == 102
TextLengths == { 0, 50 }
ClipLengths == { 50 }
ProjectModifyFns == [op : {"move"}, arg : {50}]
ProjectSplitPositions == { 25 }

(* A document whose only cut names a source the document does not hold.    *)
DanglingDocument ==
    [sources |-> EmptyDict,
     cuts |-> << [key |-> 201,
                  value |-> [source |-> 101,
                             in_out |-> [start |-> 0, end |-> 25],
                             position |-> 0, mix_strategy |-> "under",
                             volume |-> 0, speed |-> 1]] >>]

(* A document whose only cut has an out point beyond the 50 frames of its  *)
(* file source.                                                            *)
OverlongDocument ==
    [sources |-> << [key |-> 101,
                     value |-> [type |-> "file", path |-> "one.mp4",
                                length |-> 50]] >>,
     cuts |-> << [key |-> 201,
                  value |-> [source |-> 101,
                             in_out |-> [start |-> 0, end |-> 75],
                             position |-> 0, mix_strategy |-> "under",
                             volume |-> 0, speed |-> 1]] >>]

Disks ==
    { [path |-> None, file |-> NoFile],
      [path |-> [name |-> "project.rlvideo"], file |-> NoFile],
      [path |-> [name |-> "project.rlvideo"], file |-> DanglingDocument],
      [path |-> [name |-> "project.rlvideo"], file |-> OverlongDocument] }

(* Project.__init__                                                        *)
Init ==
    /\ disk \in Disks
    /\ background_worker \in {"threaded", "non_threaded"}
    /\ background_worker = "threaded" => IsNone(disk.path)
    /\ project_data = ProjectDataLoad(disk.path, disk.file)
    /\ current_transaction = None
    /\ mlt_producers = EmptyDict
    /\ jobs = << >>
    /\ current_job = None
    /\ threads = << >>
    /\ main_queue = << >>
    /\ last = [op |-> "init", changed |-> FALSE] @@ NoEffects
    /\ uuid_counter = Unused /\ cuts = Unused /\ sections = Unused
    /\ rectangle_map = Unused
    /\ down_action = Unused /\ timeline = Unused
    /\ pc = "project"

(* The steps of commit that can raise in this Project: a proxy load only   *)
(* when the worker runs it inside commit, save only when there is a path.  *)
PossibleFailures ==
    {"none", "listener"}
      \cup (IF background_worker = "non_threaded" THEN {"work"} ELSE {})
      \cup (IF IsNone(disk.path) THEN {} ELSE {"save"})

(* The Project as a handler finds it.                                      *)
TheProject ==
    [project_data |-> project_data, current_transaction |-> current_transaction,
     disk |-> disk,
     background_worker |-> background_worker, mlt_producers |-> mlt_producers,
     jobs |-> jobs, current_job |-> current_job, threads |-> threads,
     main_queue |-> main_queue,
     ev |-> NoEffects]

InTransaction == ~IsNone(current_transaction)
InWithBlock == InTransaction /\ current_transaction.in_with_block

(* An exception that leaves the body of a with block reaches               *)
(* Transaction.__exit__, which rolls back and lets it propagate.           *)
WithBody(p) ==
    IF Failed(p) /\ ~IsNone(p.current_transaction)
                 /\ p.current_transaction.in_with_block
    THEN TransactionExit(p, "none")
    ELSE p

(* A handler ran and left the Project as p. The bounds of the model limit  *)
(* the data a handler may produce.                                         *)
Handler(op, p) ==
    /\ \/ p.project_data = project_data
       \/ /\ Len(p.project_data.cuts.cut_map) <= MaxCuts
          /\ CutsEnd(p.project_data.cuts) <= MaxEnd
          /\ Len(p.project_data.sources.id_to_source) <= MaxSources
    /\ project_data' = p.project_data
    /\ current_transaction' = p.current_transaction
    /\ disk' = p.disk
    /\ mlt_producers' = p.mlt_producers
    /\ jobs' = p.jobs
    /\ current_job' = p.current_job
    /\ threads' = p.threads
    /\ main_queue' = p.main_queue
    /\ last' = [op |-> op, changed |-> p.project_data # project_data] @@ p.ev
    /\ UNCHANGED <<background_worker, uuid_counter, cuts, sections,
                   rectangle_map, down_action, timeline, pc>>

CutIds == DictKeys(project_data.cuts.cut_map) \cup {UnknownCutId}

DoNewTransaction ==
    \E in_with_block \in BOOLEAN :
        Handler("new_transaction",
                WithBody(ProjectNewTransaction(TheProject, in_with_block)))

DoModify ==
    /\ InTransaction
    /\ \E cut_id \in CutIds, fn \in ProjectModifyFns :
          Handler("modify", WithBody(TransactionModify(TheProject, cut_id, fn)))

DoAddTextClip ==
    /\ InTransaction
    /\ \E length \in TextLengths, id \in ExplicitIds \cup {NoId} :
          Handler("add_text_clip",
                  WithBody(TransactionAddTextClip(TheProject, "hello", length, id)))

DoAddClip ==
    /\ InTransaction
    /\ \E length \in ClipLengths, id \in ExplicitIds :
          Handler("add_clip",
                  WithBody(TransactionAddClip(TheProject, "one.mp4", length, id)))

DoRippleDelete ==
    /\ InTransaction
    /\ \E cut_id \in CutIds :
          Handler("ripple_delete",
                  WithBody(TransactionRippleDelete(TheProject, cut_id)))

DoSplit ==
    /\ InTransaction
    /\ \E cut_id \in CutIds, position \in ProjectSplitPositions :
          Handler("split", WithBody(TransactionSplit(TheProject, cut_id, position)))

DoReset ==
    /\ InTransaction
    /\ Handler("reset", TransactionReset(TheProject))

(* The body of a with block raises on its own.                             *)
DoRaise ==
    /\ InWithBlock
    /\ Handler("raise", WithBody(Throw(TheProject, "Exception")))

(* The end of a with block's body, or a call of commit.                    *)
DoCommit ==
    /\ InTransaction
    /\ \E fail \in PossibleFailures :
          Handler("commit", TransactionCommit(TheProject, fail))

DoRollback ==
    /\ InTransaction /\ ~InWithBlock
    /\ Handler("rollback", TransactionRollback(TheProject))

DoProjectRippleDelete ==
    \E cut_id \in CutIds, fail \in PossibleFailures :
        Handler("Project.ripple_delete",
                WithBody(ProjectRippleDelete(TheProject, cut_id, fail)))

DoProjectSplit ==
    \E cut_id \in CutIds, position \in ProjectSplitPositions,
       fail \in PossibleFailures :
        Handler("Project.split",
                WithBody(ProjectSplit(TheProject, cut_id, position, fail)))

(* The largest number of progress callbacks waiting for the main thread.   *)
MaxProgress == 1

RemoveAt(seq, i) == SubSeq(seq, 1, i - 1) \o SubSeq(seq, i + 1, Len(seq))
QueuedProgress ==
    Len(SelectSeq(main_queue, LAMBDA c : c.fn = "progress"))

(* worker of BackgroundWorker.start_next_job, on its thread: work_fn       *)
(* reports progress, which hands foo to the main thread; or it returns and *)
(* on_job_done is handed to the main thread; or it raises and the thread   *)
(* ends with nothing handed over.                                          *)
WorkerThread ==
    \E i \in DOMAIN threads, step \in {"progress", "returns", "raises"} :
        /\ step = "progress" => QueuedProgress < MaxProgress
        /\ threads' = IF step = "progress" THEN threads
                      ELSE RemoveAt(threads, i)
        /\ main_queue' =
              IF step = "progress"
              THEN Append(main_queue, [fn |-> "progress",
                                       source_id |-> threads[i].source_id])
              ELSE IF step = "returns"
              THEN Append(main_queue, [fn |-> "on_job_done",
                                       source_id |-> threads[i].source_id])
              ELSE main_queue
        /\ last' = [op |-> "work_fn", changed |-> FALSE] @@ NoEffects
        /\ UNCHANGED <<project_data, current_transaction, uuid_counter, disk,
                       background_worker, mlt_producers, jobs, current_job,
                       cuts, sections, rectangle_map, down_action,
                       timeline, pc>>

(* The main thread, idle, runs the next callback handed to it; it is not   *)
(* idle inside the body of a with block.                                   *)
MainThread ==
    /\ main_queue # << >>
    /\ ~InWithBlock
    /\ LET Run(p, callback) ==
               IF callback.fn = "progress"
               THEN Handler("progress", OnProgress(p, callback))
               ELSE Handler("on_job_done", OnJobDone(p, callback))
       IN  Run([TheProject EXCEPT !.main_queue = Tail(main_queue)],
               Head(main_queue))

Next ==
    \/ DoNewTransaction \/ DoModify \/ DoAddTextClip \/ DoAddClip
    \/ DoRippleDelete \/ DoSplit \/ DoReset \/ DoRaise \/ DoCommit
    \/ DoRollback \/ DoProjectRippleDelete \/ DoProjectSplit
    \/ WorkerThread \/ MainThread

Spec == Init /\ [][Next]_vars

---------------------------------------------------------------------------
(* C1: inside an open transaction, a reset or a rollback that follows any  *)
(* sequence of modify, add_clip, add_text_clip, ripple_delete and split    *)
(* leaves project_data equal to the value captured when the transaction    *)
(* was opened (sources, cut map and region index), and no step alters the  *)
(* captured value of a transaction that stays open.                        *)
C1_ResetRestoresSnapshot ==
    [][InTransaction =>
          /\ last'.op \in {"reset", "rollback"} =>
                project_data' = current_transaction.initial_data
          /\ ~IsNone(current_transaction') =>
                current_transaction'.initial_data
                    = current_transaction.initial_data]_vars

(* A reset undid changes: the data it replaced differed from the snapshot, *)
(* which holds a cut, and the transaction is still open.                   *)
C1_Witness ==
    /\ last.op = "reset"
    /\ last.changed
    /\ InTransaction
    /\ project_data = current_transaction.initial_data
    /\ project_data.cuts.cut_map # << >>

(* C2: at most one transaction is open at a time. new_transaction called   *)
(* while one is open fails with ValueError; the open transaction and       *)
(* project_data are left as they were (for a transaction opened by a with  *)
(* statement, whose body the error leaves, see C4).                        *)
C2_OneTransaction ==
    [][(InTransaction /\ last'.op = "new_transaction") =>
          /\ last'.raised = "ValueError"
          /\ ~current_transaction.in_with_block =>
                /\ current_transaction' = current_transaction
                /\ project_data' = project_data]_vars

(* A second new_transaction failed in the middle of a transaction that had *)
(* changed the data; the transaction is still open.                        *)
C2_Witness ==
    /\ last.op = "new_transaction"
    /\ last.raised = "ValueError"
    /\ InTransaction
    /\ project_data # current_transaction.initial_data

(* C3: after commit or rollback, whether it returned or raised partway (a  *)
(* producer_changed listener, a proxy load or save raising in commit),     *)
(* current_transaction is None and new_transaction succeeds.               *)
C3_TransactionReleased ==
    last.op \in {"commit", "rollback"} =>
        /\ IsNone(current_transaction)
        /\ ~Failed(ProjectNewTransaction(TheProject, FALSE))

(* A commit raised in save.                                                *)
C3_Witness ==
    /\ last.op = "commit"
    /\ last.raised = "OSError"
    /\ last.producer_changed_event >= 1
    /\ IsNone(current_transaction)

(* C4: when an operation in the body of a with block raises (an unknown    *)
(* cut id, a duplicate id, an invalid region, a second transaction, or the *)
(* body itself), the error reaches the caller, project_data is the         *)
(* snapshot taken when the block was entered, producer_changed is not      *)
(* triggered, nothing is saved and the transaction is released.            *)
C4_RaiseInWithBlockRollsBack ==
    [][InWithBlock =>
          /\ last'.op \in {"raise", "new_transaction"} => last'.raised # "none"
          /\ (last'.raised # "none" /\ last'.op # "commit") =>
                /\ project_data' = current_transaction.initial_data
                /\ IsNone(current_transaction')
                /\ last'.producer_changed_event = 0
                /\ ~last'.saved
                /\ disk' = disk]_vars

(* A modify with an unknown cut id raised in a with block whose body had   *)
(* changed the data: the rollback put the snapshot back.                   *)
C4_Witness ==
    /\ last.op = "modify"
    /\ last.raised = "ValueError"
    /\ last.changed
    /\ IsNone(current_transaction)
    /\ ~IsNone(disk.path)

(* C5 as stated: a successful commit keeps the data of the transaction and *)
(* triggers both the project_data and the producer_changed event.          *)
C5_CommitTriggersBothEvents ==
    (last.op = "commit" /\ last.raised = "none") =>
        /\ ~last.changed
        /\ last.project_data_event >= 1
        /\ last.producer_changed_event >= 1

(* C5, amended: a successful commit keeps the data of the transaction and  *)
(* triggers the producer_changed event; it does not trigger the            *)
(* project_data event.                                                     *)
C5_CommitTriggersProducerChanged ==
    (last.op = "commit" /\ last.raised = "none") =>
        /\ ~last.changed
        /\ last.project_data_event = 0
        /\ last.producer_changed_event >= 1

(* A commit succeeded on a project that holds a cut and saved it.          *)
C5_Witness ==
    /\ last.op = "commit"
    /\ last.raised = "none"
    /\ last.saved
    /\ project_data.cuts.cut_map # << >>
    /\ disk.file = ProjectDataToJson(project_data)

C10_CutsPointToSources ==
    \A i \in DOMAIN project_data.cuts.cut_map :
        DictHas(project_data.sources.id_to_source,
                project_data.cuts.cut_map[i].value.source.source_id)

---------------------------------------------------------------------------
(* Single calls of the Cuts operations: a collection is built by add and   *)
(* modify, then one operation is called on it and the call is kept in      *)
(* last: the operation, the cut id and the other argument it was given,    *)
(* the collection it was called on and what it returned or raised.         *)

MaxCallCuts == 3
MaxCallEnd == 200
CallInOuts == { [start |-> 0, end |-> 50], [start |-> 50, end |-> 150] }
CallPositions == { 0, 50 }
CallMoves == { 100 }
CallSplitPositions == { 25, 50, 100 }

InitCalls ==
    /\ cuts = CutsEmpty
    /\ uuid_counter = 0
    /\ last = [op |-> "init"]
    /\ sections = Unused
    /\ pc = "calls"
    /\ ProjectUnused

(* The collection is built further.                                        *)
Build(result, uuids) ==
    /\ pc = "calls"
    /\ ~Raised(result)
    /\ Len(result.cut_map) <= MaxCallCuts
    /\ CutsEnd(result) <= MaxCallEnd
    /\ cuts' = result
    /\ uuid_counter' = uuid_counter + uuids
    /\ UNCHANGED <<last, sections, pc>>
    /\ ProjectUnchanged

(* The call that is observed.                                              *)
Call(op, id, arg, result, uuids) ==
    /\ pc = "calls"
    /\ cuts' = IF Raised(result) THEN cuts ELSE result
    /\ uuid_counter' = uuid_counter + uuids
    /\ last' = [op |-> op, id |-> id, arg |-> arg, before |-> cuts,
                result |-> result]
    /\ pc' = "called"
    /\ UNCHANGED sections
    /\ ProjectUnchanged

KAdd ==
    \E in_out \in CallInOuts, position \in CallPositions :
        Build(CutsAdd(cuts, NewCut(CutSource(0), in_out, position,
                                   uuid_counter + 1, "under")), 1)

KMove ==
    \E id \in DictKeys(cuts.cut_map), delta \in CallMoves :
        Build(CutsModify(cuts, id, [op |-> "move", arg |-> delta]), 0)

KRippleDelete ==
    \E id \in DictKeys(cuts.cut_map) :
        Call("ripple_delete", id, None, CutsRippleDelete(cuts, id), 0)

KSplit ==
    \E id \in DictKeys(cuts.cut_map), position \in CallSplitPositions :
        Call("split", id, [position |-> position],
             CutsSplit(cuts, id, position, uuid_counter + 1, uuid_counter + 2),
             2)

(* cuts.add(cut).remove(cut.id) for a cut with a fresh id.                 *)
KAddRemove ==
    \E in_out \in CallInOuts, position \in CallPositions :
        LET Remove(added) ==
                IF Raised(added) THEN added
                ELSE CutsRemove(added, uuid_counter + 1)
            AddRemove(cut) ==
                Call("add_remove", cut.id, cut, Remove(CutsAdd(cuts, cut)), 1)
        IN  AddRemove(NewCut(CutSource(0), in_out, position,
                             uuid_counter + 1, "under"))

(* cuts.modify(id, lambda cut: cut)                                        *)
KModifyIdentity ==
    \E id \in DictKeys(cuts.cut_map) :
        Call("modify_identity", id, [op |-> "identity"],
             CutsModify(cuts, id, [op |-> "identity"]), 0)

NextCalls ==
    \/ KAdd \/ KMove \/ KRippleDelete \/ KSplit \/ KAddRemove
    \/ KModifyIdentity

SpecCalls == InitCalls /\ [][NextCalls]_vars

---------------------------------------------------------------------------
(* Claims about single calls of the Cuts operations (SpecCalls).           *)

(* The observed call was op on a cut id the collection held.               *)
Called(op) ==
    /\ pc = "called"
    /\ last.op = op
    /\ DictHas(last.before.cut_map, last.id)

(* C11: for every Cuts collection and every cut id in it, also the id of   *)
(* the cut with the greatest start and of the only cut, ripple_delete      *)
(* succeeds and returns a collection that no longer holds the id.          *)
C11_RippleDeleteSucceeds ==
    Called("ripple_delete") =>
        /\ ~Raised(last.result)
        /\ ~DictHas(last.result.cut_map, last.id)

(* The cut ripple_delete was called for, its start D, the other cuts of    *)
(* the collection, and the amount m by which the later ones are to move.   *)
DeletedCut == DictGet(last.before.cut_map, last.id)
RemainingCuts ==
    SelectSeq(DictValues(last.before.cut_map), LAMBDA cut : cut.id # last.id)
LaterStarts ==
    {CutStart(RemainingCuts[i]) : i \in DOMAIN RemainingCuts}
        \ (0 .. CutStart(DeletedCut))

(* C12: when ripple_delete is called for a cut that starts at D and some   *)
(* remaining cut starts after D, every remaining cut that starts at or     *)
(* before D keeps its position, every remaining cut that starts after D    *)
(* moves left by m, the least distance of such a start from D, so that the *)
(* earliest of them starts at D, and no remaining cut changes in any other *)
(* field, its in_out included; the cuts keep their order in the map.       *)
C12_RippleDeleteShiftsLaterCuts ==
    (Called("ripple_delete") /\ LaterStarts # {}) =>
        LET D == CutStart(DeletedCut)
            m == MinOf(LaterStarts) - D
        IN  /\ ~Raised(last.result)
            /\ DictValues(last.result.cut_map) =
                   [i \in DOMAIN RemainingCuts |->
                       IF CutStart(RemainingCuts[i]) <= D
                       THEN RemainingCuts[i]
                       ELSE [RemainingCuts[i] EXCEPT !.position = @ - m]]
            /\ \E i \in DOMAIN last.result.cut_map :
                   CutStart(last.result.cut_map[i].value) = D
            /\ \A i \in DOMAIN last.result.cut_map :
                   last.result.cut_map[i].key = last.result.cut_map[i].value.id

(* The middle of three cuts was deleted: the cut before it stayed, the cut *)
(* after it started later than the deleted cut's end and moved to D.       *)
C12_Witness ==
    /\ Called("ripple_delete")
    /\ ~Raised(last.result)
    /\ Len(RemainingCuts) = 2
    /\ \E i, j \in DOMAIN RemainingCuts :
          /\ CutStart(RemainingCuts[i]) < CutStart(DeletedCut)
          /\ CutStart(RemainingCuts[j]) > CutEnd(DeletedCut)
          /\ CutStart(last.result.cut_map[j].value) = CutStart(DeletedCut)
          /\ last.result.cut_map[i].value = RemainingCuts[i]

(* The cut split was called for and the two cuts the result holds in its   *)
(* place: the last two of the map.                                         *)
SplitCut == DictGet(last.before.cut_map, last.id)
FirstHalf == last.result.cut_map[Len(last.result.cut_map) - 1].value
SecondHalf == last.result.cut_map[Len(last.result.cut_map)].value

(* C13: when split is called at a position strictly inside a cut, the      *)
(* result holds, in place of the cut, two cuts with distinct ids that the  *)
(* collection did not hold: the first lies on [start, at) and the second   *)
(* on [at, end) of the timeline, their in_out regions cut the cut's in_out *)
(* at in_out.start + (at - start), and they agree with the cut in every    *)
(* other field. The id of the cut is gone, every other cut is unchanged,   *)
(* and so is the end of the collection.                                    *)
C13_SplitReplacesCutByHalves ==
    (Called("split") /\ CutStart(SplitCut) < last.arg.position
                     /\ last.arg.position < CutEnd(SplitCut)) =>
        LET at == last.arg.position
            mid == SplitCut.in_out.start + (at - CutStart(SplitCut))
        IN  /\ ~Raised(last.result)
            /\ Len(last.result.cut_map) = Len(last.before.cut_map) + 1
            /\ FirstHalf.id # SecondHalf.id
            /\ {FirstHalf.id, SecondHalf.id}
                   \cap DictKeys(last.before.cut_map) = {}
            /\ DictKeys(last.result.cut_map) =
                   (DictKeys(last.before.cut_map) \ {last.id})
                       \cup {FirstHalf.id, SecondHalf.id}
            /\ FirstHalf = [SplitCut EXCEPT
                               !.id = FirstHalf.id,
                               !.in_out = [start |-> SplitCut.in_out.start,
                                           end |-> mid]]
            /\ SecondHalf = [SplitCut EXCEPT
                                !.id = SecondHalf.id,
                                !.position = at,
                                !.in_out = [start |-> mid,
                                            end |-> SplitCut.in_out.end]]
            /\ CutStart(FirstHalf) = CutStart(SplitCut) /\ CutEnd(FirstHalf) = at
            /\ CutStart(SecondHalf) = at /\ CutEnd(SecondHalf) = CutEnd(SplitCut)
            /\ \A id \in DictKeys(last.before.cut_map) \ {last.id} :
                   DictGet(last.result.cut_map, id)
                       = DictGet(last.before.cut_map, id)
            /\ CutsEnd(last.result) = CutsEnd(last.before)

(* A cut that lies in two buckets of the index was split at the border of  *)
(* the buckets while the collection held other cuts.                       *)
C13_Witness ==
    /\ Called("split")
    /\ ~Raised(last.result)
    /\ Len(last.before.cut_map) = 3
    /\ Cardinality(GetGroups(CutRegion(SplitCut),
                             last.before.region_group_size)) = 2
    /\ CutStart(SecondHalf) = 100
    /\ SplitCut.in_out.start = 50
    /\ SecondHalf.in_out.start = 100

---------------------------------------------------------------------------
(* C14: for every ProjectData reached through transaction operations,      *)
(* loading the document a save has written gives a ProjectData equal to    *)
(* the one saved: the same sources, the same cut map and the same region   *)
(* index.                                                                  *)
C14_SaveLoadRoundTrip ==
    (pc = "project" /\ last.saved) =>
        ProjectDataEq(ProjectDataLoad(disk.path, disk.file), project_data)

(* C15: for every Cuts collection and every cut whose id is not in it,     *)
(* adding the cut and then removing its id gives a collection equal to the *)
(* one before the add: the same cut map and the same region index.         *)
C15_AddRemoveRestores ==
    (pc = "called" /\ last.op = "add_remove"
                   /\ ~DictHas(last.before.cut_map, last.id)) =>
        CutsEq(last.result, last.before)

(* C16: for every Cuts collection and every cut id in it, modify with the  *)
(* identity function gives a collection equal to the one it was called on: *)
(* the same cut map and the same region index, the order of the ids within *)
(* each bucket included.                                                   *)
C16_ModifyIdentityIsIdentity ==
    Called("modify_identity") => CutsEq(last.result, last.before)

---------------------------------------------------------------------------
(* Single calls of the Region and Cut operations: the operation is applied *)
(* to regions and cuts built by their constructors and last keeps the      *)
(* call: the operation, the value it was called on, its argument, what it  *)
(* returned or raised, and the Region values the result holds.             *)

MaxCoord == 3
Coords == 0 .. MaxCoord
Amounts == (0 - MaxCoord - 1) .. (MaxCoord + 1)
ScaleFactors == { [num |-> 1, den |-> 2], [num |-> 2, den |-> 1] }
ValidRegions ==
    { [start |-> start, end |-> end] : start \in Coords, end \in Coords }
        \cap { r \in [start : Coords, end : Coords] : ~Raised(Region(r.start, r.end)) }
TestCuts ==
    { NewCut(CutSource(0), in_out, position, 1, "under") :
          in_out \in ValidRegions, position \in 0 .. 2 }

InitRegions ==
    /\ last = [op |-> "init"]
    /\ pc = "regions"
    /\ cuts = Unused /\ sections = Unused /\ uuid_counter = Unused
    /\ ProjectUnused

Applied(op, input, arg, result, regions) ==
    /\ pc = "regions"
    /\ pc' = "applied"
    /\ last' = [op |-> op, input |-> input, arg |-> arg, result |-> result,
                regions |-> regions]
    /\ UNCHANGED <<cuts, sections, uuid_counter>>
    /\ ProjectUnchanged

(* The Region values of a result that is a Region, None or an exception.   *)
RegionsOf(result) == IF Raised(result) \/ IsNone(result) THEN {} ELSE {result}

RConstruct ==
    \E start \in Coords, end \in Coords :
        Applied("Region", None, [start |-> start, end |-> end],
                Region(start, end), RegionsOf(Region(start, end)))

RGetOverlap ==
    \E a \in ValidRegions, b \in ValidRegions :
        Applied("get_overlap", a, b, RegionGetOverlap(a, b),
                RegionsOf(RegionGetOverlap(a, b)))

RUnion ==
    \E a \in ValidRegions, b \in ValidRegions :
        Applied("union", a, b, RegionUnion(a, b),
                {RegionUnion(a, b)[i] : i \in DOMAIN RegionUnion(a, b)})

RScale ==
    \E r \in ValidRegions, factor \in ScaleFactors :
        Applied("scale", r, factor, Scale(r, factor.num, factor.den),
                {Scale(r, factor.num, factor.den)})

RResizeTo ==
    \E r \in ValidRegions, size \in Amounts :
        Applied("resize_to", r, size, ResizeTo(r, size), {ResizeTo(r, size)})

RShortenLeft ==
    \E r \in ValidRegions, amount \in Amounts :
        Applied("shorten_left", r, amount, ShortenLeft(r, amount),
                {ShortenLeft(r, amount)})

RMoveEnd ==
    \E r \in ValidRegions, amount \in Amounts :
        Applied("move_end", r, amount, MoveEnd(r, amount), {MoveEnd(r, amount)})

RMoveLeft ==
    \E cut \in TestCuts, amount \in Amounts :
        Applied("move_left", cut, amount, CutMoveLeft(cut, amount),
                {CutMoveLeft(cut, amount).in_out})

RSplit ==
    \E cut \in TestCuts, position \in Coords :
        Applied("split", cut, position, CutSplit(cut, position, 2, 3),
                {CutSplit(cut, position, 2, 3)[i].in_out : i \in 1 .. 2})

RCreateCut ==
    \E cut \in TestCuts, region \in ValidRegions :
        Applied("create_cut", cut, region, CutCreateCut(cut, region),
                {x.in_out : x \in RegionsOf(CutCreateCut(cut, region))})

(* create_cut of a cut that create_cut returned for another window.        *)
RCreateCutOfSubcut ==
    \E cut \in TestCuts, first \in ValidRegions, region \in ValidRegions :
        /\ ~IsNone(CutCreateCut(cut, first))
        /\ Applied("create_cut", CutCreateCut(cut, first), region,
                   CutCreateCut(CutCreateCut(cut, first), region),
                   {x.in_out : x \in RegionsOf(CutCreateCut(CutCreateCut(cut, first),
                                                            region))})

NextRegions ==
    \/ RConstruct \/ RGetOverlap \/ RUnion \/ RScale \/ RResizeTo
    \/ RShortenLeft \/ RMoveEnd \/ RMoveLeft \/ RSplit \/ RCreateCut
    \/ RCreateCutOfSubcut

SpecRegions == InitRegions /\ [][NextRegions]_vars

(* C17: every Region value that a Region or Cut operation produces -- the  *)
(* constructor, get_overlap, union, scale, resize_to, shorten_left,        *)
(* move_end, Cut.move_left, Cut.split, Cut.create_cut -- has start < end;  *)
(* an operation that would produce start >= end fails instead.             *)
C17_RegionsAreValid ==
    pc = "applied" => \A r \in last.regions : r.start < r.end

(* C18: for every cut with in_out.start >= 0 and position >= 0 and every   *)
(* integer amount, move_left gives a cut with in_out.start >= 0,           *)
(* position >= 0 and a length of at least 1, in which in_out.start and     *)
(* position have changed by the same amount, and in_out.end, the end of    *)
(* the cut on the timeline and every other field are unchanged.            *)
C18_MoveLeftKeepsCutValid ==
    (pc = "applied" /\ last.op = "move_left"
        /\ last.input.in_out.start >= 0 /\ last.input.position >= 0) =>
        /\ last.result.in_out.start >= 0
        /\ last.result.position >= 0
        /\ CutLength(last.result) >= 1
        /\ last.result.in_out.start - last.input.in_out.start
               = last.result.position - last.input.position
        /\ last.result.in_out.end = last.input.in_out.end
        /\ CutEnd(last.result) = CutEnd(last.input)
        /\ last.result = [last.input EXCEPT
                             !.in_out.start = last.result.in_out.start,
                             !.position = last.result.position]

(* A cut of length 3 was asked to move its left edge further than its      *)
(* length allows and collapsed to length 1.                                *)
C18_Witness ==
    /\ pc = "applied"
    /\ last.op = "move_left"
    /\ CutLength(last.input) = 3
    /\ last.arg > CutLength(last.input) - 1
    /\ CutLength(last.result) = 1
    /\ last.result.position = last.input.position + 2

---------------------------------------------------------------------------
(* C19: after every commit, each cut of a file source has an in_out within *)
(* the source: in_out.start >= 0 and in_out.end <= the source's length.    *)
C19_CommittedCutsWithinSource ==
    (pc = "project" /\ last.raised = "none"
        /\ last.op \in {"commit", "Project.ripple_delete", "Project.split"}) =>
        \A i \in DOMAIN project_data.cuts.cut_map :
            LET cut == project_data.cuts.cut_map[i].value
                sources == project_data.sources.id_to_source
            IN  (DictHas(sources, cut.source.source_id)
                    /\ DictGet(sources, cut.source.source_id).type = "file") =>
                    /\ cut.in_out.start >= 0
                    /\ cut.in_out.end
                           <= DictGet(sources, cut.source.source_id).length

---------------------------------------------------------------------------
(* The BackgroundWorker specification: the worker of a Project is given    *)
(* jobs by add, in any order and at any time, while the threads it starts  *)
(* run and the main thread runs the callbacks handed to it. A job is named *)
(* by the source whose proxy it loads, as ProxySourceLoader.load makes it. *)

MaxJobs == 2
JobSourceIds == { 101, 102 }

InitWorker == Init /\ background_worker = "threaded"

DoAdd ==
    \E source_id \in JobSourceIds :
        /\ Len(jobs) < MaxJobs
        /\ Handler("add", WorkerAdd(TheProject, [source_id |-> source_id]))

NextWorker == DoAdd \/ WorkerThread \/ MainThread

SpecWorker == InitWorker /\ [][NextWorker]_vars

(* Jobs in flight: started, and the result not yet delivered. Their        *)
(* work_fn runs on a thread, or it has returned and on_job_done waits for  *)
(* the main thread.                                                        *)
QueuedResults ==
    Len(SelectSeq(main_queue, LAMBDA c : c.fn = "on_job_done"))
InFlight == Len(threads) + QueuedResults

(* C20: whatever the interleaving of add calls, worker threads and main    *)
(* thread deliveries, at most one job is in flight: a work_fn is started   *)
(* only when no started job is still running or waiting for delivery.      *)
C20_AtMostOneJobInFlight == InFlight <= 1

(* The delivery of a result has started the next job while another job     *)
(* is still pending.                                                       *)
C20_Witness ==
    /\ last.op = "on_job_done"
    /\ Len(threads) = 1
    /\ jobs # << >>
    /\ ~IsNone(current_job)

(* C21: the worker runs jobs as a queue: the job a step starts is the      *)
(* oldest pending job, so a job added before another is started before it. *)
C21_JobsStartInOrderAdded ==
    [][(Len(threads') > Len(threads) /\ jobs # << >>) =>
           threads'[Len(threads')] = Head(jobs)]_vars

(* C22: a job whose work_fn raised does not block the worker: no state has *)
(* a current job with neither a thread running it nor a callback for it    *)
(* waiting for the main thread, which would clear it and start the next.   *)
C22_FailedJobDoesNotBlock ==
    ~(/\ ~IsNone(current_job)
      /\ threads = << >>
      /\ QueuedResults = 0)

(* C23: a proxy-ready callback (store, run by on_job_done on the main      *)
(* thread) never runs while the Project has an open transaction.           *)
C23_NoDeliveryInsideTransaction ==
    (pc = "project" /\ last.op = "on_job_done") => IsNone(current_transaction)

---------------------------------------------------------------------------
(* The ProxySourceLoader specification: the loader of a Project that holds *)
(* three file sources is asked, at any time and for any of the sources, to *)
(* ensure their proxies are present, while the worker loads them.          *)

LoaderSourceIds == { 101, 102, 103 }

LoaderDocument ==
    [sources |-> [i \in 1 .. 3 |->
                     [key |-> 100 + i,
                      value |-> [type |-> "file", path |-> "one.mp4",
                                 length |-> 50]]],
     cuts |-> EmptyDict]

(* The lists of distinct source ids a caller may pass.                     *)
IdLists ==
    { ids \in UNION { [1 .. n -> LoaderSourceIds] : n \in 0 .. 3 } :
        \A i, j \in DOMAIN ids : i # j => ids[i] # ids[j] }

InitLoader ==
    /\ disk = [path |-> [name |-> "project.rlvideo"], file |-> LoaderDocument]
    /\ background_worker \in {"threaded", "non_threaded"}
    /\ project_data = ProjectDataLoad(disk.path, disk.file)
    /\ current_transaction = None
    /\ mlt_producers = EmptyDict
    /\ jobs = << >>
    /\ current_job = None
    /\ threads = << >>
    /\ main_queue = << >>
    /\ last = [op |-> "init", changed |-> FALSE] @@ NoEffects
    /\ uuid_counter = Unused /\ cuts = Unused /\ sections = Unused
    /\ rectangle_map = Unused
    /\ down_action = Unused /\ timeline = Unused
    /\ pc = "loader"

(* ProxySourceLoader.ensure_present was called with ids and left the       *)
(* Project as p; last keeps the cache and the jobs it found.               *)
DoEnsurePresent ==
    \E ids \in IdLists, work_raises \in BOOLEAN :
        LET Returned(p) ==
                /\ work_raises => background_worker = "non_threaded"
                /\ Len(p.jobs) <= MaxJobs
                /\ mlt_producers' = p.mlt_producers
                /\ jobs' = p.jobs
                /\ current_job' = p.current_job
                /\ threads' = p.threads
                /\ main_queue' = p.main_queue
                /\ last' = [op |-> "ensure_present", changed |-> FALSE,
                            ids |-> ids,
                            before |-> [mlt_producers |-> mlt_producers,
                                        jobs |-> jobs, threads |-> threads]]
                               @@ p.ev
                /\ UNCHANGED <<project_data, current_transaction, disk,
                               background_worker, uuid_counter, cuts,
                               sections, rectangle_map, down_action,
                               timeline, pc>>
        IN  Returned(EnsurePresent(TheProject, ids, work_raises))

NextLoader == DoEnsurePresent \/ WorkerThread \/ MainThread

SpecLoader == InitLoader /\ [][NextLoader]_vars

(* The load jobs of a source that wait or whose work_fn runs.              *)
JobsOf(js, ts, id) ==
    Len(SelectSeq(js, LAMBDA j : j.source_id = id))
        + Len(SelectSeq(ts, LAMBDA j : j.source_id = id))

EnsurePresentReturned ==
    pc = "loader" /\ last.op = "ensure_present" /\ last.raised = "none"

(* What holds when ensure_present(ids) returns: the keys of the cache are  *)
(* ids; an id that was absent got exactly one load job and maps to the     *)
(* loading placeholder (the non-threaded worker delivers the result inside *)
(* the call); an id that was present got no job and kept its producer.     *)
EnsurePresentPostcondition ==
    EnsurePresentReturned =>
        /\ DictKeys(mlt_producers) = {last.ids[i] : i \in DOMAIN last.ids}
        /\ \A i \in DOMAIN last.ids :
              LET id == last.ids[i]
                  added == JobsOf(jobs, threads, id)
                             - JobsOf(last.before.jobs, last.before.threads, id)
              IN  IF DictHas(last.before.mlt_producers, id)
                  THEN /\ added = 0
                       /\ DictGet(mlt_producers, id)
                             = DictGet(last.before.mlt_producers, id)
                  ELSE IF background_worker = "threaded"
                  THEN /\ added = 1
                       /\ DictGet(mlt_producers, id) = "loading"
                  ELSE /\ added = 0
                       /\ DictGet(mlt_producers, id) = "producer"

(* The job the call enqueued for id is the only job of id that waits or    *)
(* runs: none did before the call.                                         *)
EnqueuedTheOnlyJob(id) ==
    /\ EnsurePresentReturned
    /\ background_worker = "threaded"
    /\ ListHas(last.ids, id)
    /\ ~DictHas(last.before.mlt_producers, id)
    /\ JobsOf(last.before.jobs, last.before.threads, id) = 0

(* C24: after ensure_present(ids) returns, the keys of the cache are ids,  *)
(* an absent id got exactly one load job and a present id none and kept    *)
(* its producer; and the id of an enqueued job maps to the loading         *)
(* placeholder until the result of that job is delivered: while the job    *)
(* still waits or runs after the next step, the placeholder is in place.   *)
C24_EnsurePresentContract ==
    /\ []EnsurePresentPostcondition
    /\ [][\A id \in LoaderSourceIds :
            (EnqueuedTheOnlyJob(id) /\ JobsOf(jobs', threads', id) = 1
                /\ last'.op # "ensure_present") =>
                (DictHas(mlt_producers', id)
                    /\ DictGet(mlt_producers', id) = "loading")]_vars

---------------------------------------------------------------------------
(* The order of the playlists of a Mix section (Sections specification).   *)

(* Cuts.from_list of the same cuts in the opposite order.                  *)
ReverseSeq(seq) == [i \in DOMAIN seq |-> seq[Len(seq) + 1 - i]]
InsertedInReverse(c) == CutsAddAll(CutsEmpty, ReverseSeq(DictValues(c.cut_map)))

(* C25: the order of the playlists of a Mix section depends only on the    *)
(* set of cuts: the same cuts inserted in the opposite order give the same *)
(* result of extract_mix_section, also when cuts share start and end.      *)
C25_MixOrderIndependentOfInsertion ==
    (pc = "done" /\ Len(cuts.cut_map) >= 2) =>
        LET Same(region) ==
                ExtractMixSection(cuts, region)
                    = ExtractMixSection(InsertedInReverse(cuts), region)
        IN  Same(Region(0, CutsEnd(cuts)))

(* The cut a playlist of a Mix section shows, and its sort key.            *)
MixCut(playlist) == PlaylistCuts(playlist)[1]
MixKey(playlist) ==
    <<CutStart(GetSourceCut(MixCut(playlist))),
      CutEnd(GetSourceCut(MixCut(playlist)))>>
MixSections(s) ==
    SelectSeq(s.sections, LAMBDA section : section.type = "mix")

(* C26: in every Mix section the playlists of the "over" cuts precede the  *)
(* playlists of the "under" cuts, and within each of the two groups the    *)
(* playlists are in ascending order of (source cut start, source cut end). *)
C26_MixOrder ==
    (pc = "done" /\ ~Raised(sections)) =>
        \A m \in DOMAIN MixSections(sections) :
            LET playlists == MixSections(sections)[m].playlists
            IN  \A i, j \in DOMAIN playlists :
                    i < j =>
                        /\ ~(MixCut(playlists[i]).mix_strategy = "under"
                               /\ MixCut(playlists[j]).mix_strategy = "over")
                        /\ (MixCut(playlists[i]).mix_strategy
                               = MixCut(playlists[j]).mix_strategy) =>
                              ~KeyLess(MixKey(playlists[j]), MixKey(playlists[i]))

(* The sections lie one after the other from frame 0: the kind of the      *)
(* section that holds frame f.                                             *)
RECURSIVE SectionKindAt(_, _)
SectionKindAt(seq, f) ==
    IF seq = << >> THEN "none"
    ELSE IF f < Head(seq).length THEN Head(seq).type
    ELSE SectionKindAt(Tail(seq), f - Head(seq).length)

(* The cuts of a collection that cover frame f.                            *)
CutsCovering(c, f) ==
    {i \in DOMAIN c.cut_map :
        CutStart(c.cut_map[i].value) <= f /\ f < CutEnd(c.cut_map[i].value)}

(* C30: the sections of split_into_sections are maximal: a frame of        *)
(* [0, Cuts.end) lies in a Mix section exactly when at least two cuts      *)
(* cover it, and no two consecutive sections are of the same kind.         *)
C30_SectionsAreMaximal ==
    pc = "done" =>
        /\ ~Raised(sections)
        /\ \A f \in 0 .. (CutsEnd(cuts) - 1) :
              (SectionKindAt(sections.sections, f) = "mix")
                  <=> (Cardinality(CutsCovering(cuts, f)) >= 2)
        /\ \A i \in 1 .. (Len(sections.sections) - 1) :
              sections.sections[i].type # sections.sections[i + 1].type

(* Two overlaps that touch were merged into one Mix section that three     *)
(* cuts take part in, with a Playlist section on either side.              *)
C30_Witness ==
    /\ pc = "done"
    /\ ~Raised(sections)
    /\ Len(sections.sections) = 3
    /\ sections.sections[2].type = "mix"
    /\ Len(sections.sections[2].playlists) = 3
    /\ \E f \in 1 .. (CutsEnd(cuts) - 1) :
          /\ Cardinality(CutsCovering(cuts, f - 1)) = 2
          /\ Cardinality(CutsCovering(cuts, f)) = 2
          /\ CutsCovering(cuts, f - 1) # CutsCovering(cuts, f)

---------------------------------------------------------------------------
(* Rectangle (graphics/rectangle.py) and RectangleMap (gui/framework.py).  *)

(* Rectangle.__init__                                                      *)
Rectangle(x, y, width, height) ==
    IF width <= 0 \/ height <= 0 THEN Raise("ValueError")
    ELSE [x |-> x, y |-> y, width |-> width, height |-> height]

(* Rectangle.contains                                                      *)
Contains(rectangle, x, y) ==
    IF x < rectangle.x THEN FALSE
    ELSE IF x > rectangle.x + rectangle.width THEN FALSE
    ELSE IF y < rectangle.y THEN FALSE
    ELSE IF y > rectangle.y + rectangle.height THEN FALSE
    ELSE TRUE

(* int(round(num / den)) for num >= 0 and den > 0: Python rounds a half to *)
(* the even neighbour. The quotient is taken exactly; for the distances    *)
(* and sizes of the specifications below the float expression of           *)
(* Distance.divide has the same value.                                     *)
RoundHalfEven(num, den) ==
    LET q == num \div den
        r == num % den
    IN  IF 2 * r < den THEN q
        ELSE IF 2 * r > den THEN q + 1
        ELSE IF q % 2 = 0 THEN q ELSE q + 1

RECURSIVE SumSizes(_)
SumSizes(sizes) ==
    IF sizes = << >> THEN 0 ELSE Head(sizes) + SumSizes(Tail(sizes))

(* Mutant: every item's share is rounded on its own.                       *)
DistanceDivide_RoundsEachShare(distance, sizes) ==
    [pairs |-> [i \in DOMAIN sizes |->
                   RoundHalfEven(sizes[i] * distance, SumSizes(sizes))]]

(* Distance.divide: the list of what it yields, the distance of each item  *)
(* in the order of the items; sizes[i] is size_fn of the i-th item. An     *)
(* empty total divides by zero.                                            *)
DistanceDivide(distance, sizes) ==
    LET total_size == SumSizes(sizes)
        ItemPos(i) ==
            RoundHalfEven(SumSizes(SubSeq(sizes, 1, i)) * distance, total_size)
    IN  IF total_size = 0 /\ sizes # << >> THEN Raise("ZeroDivisionError")
        ELSE [pairs |-> [i \in DOMAIN sizes |->
                            ItemPos(i) - (IF i = 1 THEN 0 ELSE ItemPos(i - 1))]]

(* The loop of Rectangle.divide_width and divide_height: the items with a  *)
(* distance > 0, each with its offset.                                     *)
RECURSIVE DivideLoop(_, _, _)
DivideLoop(distances, i, offset) ==
    IF i > Len(distances) THEN << >>
    ELSE IF distances[i] > 0
    THEN <<[item |-> i, offset |-> offset, distance |-> distances[i]]>>
             \o DivideLoop(distances, i + 1, offset + distances[i])
    ELSE DivideLoop(distances, i + 1, offset)

(* Rectangle.divide_width: the list of the pairs (item, rectangle) it      *)
(* yields.                                                                 *)
DivideWidth(rectangle, sizes) ==
    LET Yield(distances) ==
            IF Raised(distances) THEN distances
            ELSE LET parts == DivideLoop(distances.pairs, 1, 0)
                 IN  [pairs |->
                         [k \in DOMAIN parts |->
                             [item |-> parts[k].item,
                              rectangle |->
                                  [rectangle EXCEPT
                                      !.x = rectangle.x + parts[k].offset,
                                      !.width = parts[k].distance]]]]
    IN  Yield(DistanceDivide(rectangle.width, sizes))

(* Rectangle.divide_height                                                 *)
DivideHeight(rectangle, sizes) ==
    LET Yield(distances) ==
            IF Raised(distances) THEN distances
            ELSE LET parts == DivideLoop(distances.pairs, 1, 0)
                 IN  [pairs |->
                         [k \in DOMAIN parts |->
                             [item |-> parts[k].item,
                              rectangle |->
                                  [rectangle EXCEPT
                                      !.y = rectangle.y + parts[k].offset,
                                      !.height = parts[k].distance]]]]
    IN  Yield(DistanceDivide(rectangle.height, sizes))

(* Action(): the action whose handlers all return NO_ACTION. The actions   *)
(* added to a map are numbered from 1.                                     *)
NoOpAction == [action |-> 0]

(* fn(item): the callers' fn calls one handler of the action; handled is   *)
(* the set of actions whose handler returns something else than NO_ACTION. *)
ReturnsNoAction(handled, item) == item \notin handled

(* Mutant: the entries are tried in the order they were added.             *)
Perform_InsertionOrder(map, x, y, handled) ==
    LET Try[i \in 1 .. (Len(map) + 1), applied \in Seq(DOMAIN map)] ==
            IF i > Len(map) THEN [item |-> NoOpAction, applied |-> applied]
            ELSE IF ~Contains(map[i].rectangle, x, y) THEN Try[i + 1, applied]
            ELSE IF ReturnsNoAction(handled, map[i].item)
            THEN Try[i + 1, Append(applied, i)]
            ELSE [item |-> map[i].item, applied |-> Append(applied, i)]
    IN  Try[1, << >>]

(* RectangleMap.perform: the item returned, and the entries of the map fn  *)
(* was applied to, in the order of the calls.                              *)
Perform(map, x, y, handled) ==
    LET Try[i \in 0 .. Len(map), applied \in Seq(DOMAIN map)] ==
            IF i = 0 THEN [item |-> NoOpAction, applied |-> applied]
            ELSE IF ~Contains(map[i].rectangle, x, y) THEN Try[i - 1, applied]
            ELSE IF ReturnsNoAction(handled, map[i].item)
            THEN Try[i - 1, Append(applied, i)]
            ELSE [item |-> map[i].item, applied |-> Append(applied, i)]
    IN  Try[Len(map), << >>]

---------------------------------------------------------------------------
(* The RectangleMap specification: a map is cleared, filled by add and     *)
(* asked to perform at a point with an fn.                                 *)

MaxMapItems == 3
MaxPoint == 4

MapRectangles ==
    { Rectangle(0, 0, 2, 2), Rectangle(1, 1, 2, 2), Rectangle(3, 3, 1, 1) }
Points == 0 .. MaxPoint

InitMap ==
    /\ rectangle_map = << >>
    /\ last = [op |-> "init"]
    /\ pc = "map"
    /\ cuts = Unused /\ sections = Unused /\ uuid_counter = Unused
    /\ project_data = Unused /\ current_transaction = Unused /\ disk = Unused
    /\ background_worker = Unused
    /\ mlt_producers = Unused /\ jobs = Unused /\ current_job = Unused
    /\ threads = Unused /\ main_queue = Unused
    /\ down_action = Unused /\ timeline = Unused

MapUnchanged ==
    UNCHANGED <<cuts, sections, uuid_counter, pc, project_data,
                current_transaction, disk, background_worker, mlt_producers,
                jobs, current_job, threads, main_queue, down_action,
                timeline>>

(* RectangleMap.add                                                        *)
MapAdd ==
    /\ Len(rectangle_map) < MaxMapItems
    /\ \E rectangle \in MapRectangles :
          rectangle_map' =
              Append(rectangle_map,
                     [rectangle |-> rectangle,
                      item |-> [action |-> Len(rectangle_map) + 1]])
    /\ last' = [op |-> "add"]
    /\ MapUnchanged

(* RectangleMap.clear                                                      *)
MapClear ==
    /\ rectangle_map # << >>
    /\ rectangle_map' = << >>
    /\ last' = [op |-> "clear"]
    /\ MapUnchanged

(* RectangleMap.perform                                                    *)
MapPerform ==
    /\ \E x \in Points, y \in Points,
          handled \in SUBSET {rectangle_map[i].item : i \in DOMAIN rectangle_map} :
          last' = [op |-> "perform", x |-> x, y |-> y, handled |-> handled,
                   result |-> Perform(rectangle_map, x, y, handled)]
    /\ UNCHANGED rectangle_map
    /\ MapUnchanged

NextMap == MapAdd \/ MapClear \/ MapPerform

SpecMap == InitMap /\ [][NextMap]_vars

(* The entries whose rectangle contains the point and whose action does    *)
(* not answer NO_ACTION to fn.                                             *)
Candidates ==
    {i \in DOMAIN rectangle_map :
        /\ Contains(rectangle_map[i].rectangle, last.x, last.y)
        /\ ~ReturnsNoAction(last.handled, rectangle_map[i].item)}

(* C27: perform returns the most recently added action whose rectangle     *)
(* contains (x, y) and for which fn returns something else than NO_ACTION, *)
(* without applying fn to any action added earlier; when there is no such  *)
(* action it returns a no-op Action.                                       *)
C27_PerformReturnsTopmost ==
    (pc = "map" /\ last.op = "perform") =>
        IF Candidates = {}
        THEN last.result.item = NoOpAction
        ELSE LET top == CHOOSE i \in Candidates : \A j \in Candidates : j <= i
             IN  /\ last.result.item = rectangle_map[top].item
                 /\ \A k \in DOMAIN last.result.applied :
                       last.result.applied[k] >= top

(* fn answered NO_ACTION for the topmost action at the point, the action   *)
(* below it was returned, and a third one further down was left alone.     *)
C27_Witness ==
    /\ pc = "map" /\ last.op = "perform"
    /\ Len(rectangle_map) = 3
    /\ \A i \in DOMAIN rectangle_map :
          Contains(rectangle_map[i].rectangle, last.x, last.y)
    /\ last.handled = {rectangle_map[1].item, rectangle_map[2].item}
    /\ last.result.item = rectangle_map[2].item
    /\ last.result.applied = <<3, 2>>

---------------------------------------------------------------------------
(* The Rectangle specification: divide_width and divide_height are applied *)
(* to a rectangle and to items of sizes >= 0 that are not all 0.           *)

MaxSide == 5
MaxItems == 3
MaxSize == 3

DivideRectangles ==
    { Rectangle(x, y, width, height) :
        x \in {0, 2}, y \in {0, 1}, width \in 1 .. MaxSide,
        height \in {1, MaxSide} }
DivideSizes ==
    { sizes \in UNION { [1 .. n -> 0 .. MaxSize] : n \in 1 .. MaxItems } :
        SumSizes(sizes) > 0 }

InitDivide ==
    /\ last = [op |-> "init"]
    /\ pc = "divide"
    /\ cuts = Unused /\ sections = Unused /\ uuid_counter = Unused
    /\ ProjectUnused

Divided(op, rectangle, sizes, result) ==
    /\ pc = "divide"
    /\ last' = [op |-> op, rectangle |-> rectangle, sizes |-> sizes,
                result |-> result]
    /\ pc' = "divided"
    /\ UNCHANGED <<cuts, sections, uuid_counter>>
    /\ ProjectUnchanged

DDivideWidth ==
    \E rectangle \in DivideRectangles, sizes \in DivideSizes :
        Divided("divide_width", rectangle, sizes, DivideWidth(rectangle, sizes))

(* divide_height is given the same rectangles with the axes exchanged.     *)
Transposed(rectangle) ==
    Rectangle(rectangle.y, rectangle.x, rectangle.height, rectangle.width)

DDivideHeight ==
    \E rectangle \in DivideRectangles, sizes \in DivideSizes :
        Divided("divide_height", Transposed(rectangle), sizes,
                DivideHeight(Transposed(rectangle), sizes))

NextDivide == DDivideWidth \/ DDivideHeight

SpecDivide == InitDivide /\ [][NextDivide]_vars

(* The yielded rectangles tile the parent along one axis: from and extent  *)
(* are x and width for divide_width, y and height for divide_height.       *)
Tiles(result, parent_from, parent_extent, From(_), Extent(_)) ==
    /\ result # << >>
    /\ From(result[1].rectangle) = parent_from
    /\ \A k \in DOMAIN result :
          /\ Extent(result[k].rectangle) > 0
          /\ k > 1 => From(result[k].rectangle)
                        = From(result[k - 1].rectangle)
                            + Extent(result[k - 1].rectangle)
    /\ From(result[Len(result)].rectangle)
           + Extent(result[Len(result)].rectangle)
         = parent_from + parent_extent

(* C28: for every rectangle and every non-empty list of items with sizes   *)
(* >= 0 and a positive total, the rectangles of divide_width tile the      *)
(* parent: the first starts at the parent's x, each next one where the     *)
(* previous ends, every width is > 0 (no rectangle for an item of distance *)
(* 0), the widths sum to the parent's width and the other axis is kept;    *)
(* divide_height does the same with y and height.                          *)
C28_DivideTilesParent ==
    pc = "divided" =>
        /\ ~Raised(last.result)
        /\ \A k \in DOMAIN last.result.pairs :
              /\ last.sizes[last.result.pairs[k].item] > 0
              /\ k > 1 => last.result.pairs[k - 1].item < last.result.pairs[k].item
        /\ IF last.op = "divide_width"
           THEN /\ Tiles(last.result.pairs, last.rectangle.x, last.rectangle.width,
                         LAMBDA r : r.x, LAMBDA r : r.width)
                /\ \A k \in DOMAIN last.result.pairs :
                      /\ last.result.pairs[k].rectangle.y = last.rectangle.y
                      /\ last.result.pairs[k].rectangle.height = last.rectangle.height
           ELSE /\ Tiles(last.result.pairs, last.rectangle.y, last.rectangle.height,
                         LAMBDA r : r.y, LAMBDA r : r.height)
                /\ \A k \in DOMAIN last.result.pairs :
                      /\ last.result.pairs[k].rectangle.x = last.rectangle.x
                      /\ last.result.pairs[k].rectangle.width = last.rectangle.width

(* Three items, one of them with a positive size whose share rounds to     *)
(* zero and is left out, and widths that are not all the rounded shares.   *)
C28_Witness ==
    /\ pc = "divided" /\ last.op = "divide_width"
    /\ Len(last.sizes) = 3
    /\ \A i \in DOMAIN last.sizes : last.sizes[i] > 0
    /\ Len(last.result.pairs) = 2
    /\ \E k \in DOMAIN last.result.pairs :
          last.result.pairs[k].rectangle.width
              # RoundHalfEven(last.sizes[last.result.pairs[k].item]
                                 * last.rectangle.width,
                              SumSizes(last.sizes))

---------------------------------------------------------------------------
(* Cut boxes (domain/section.py, domain/cut.py). The boxes dict maps a     *)
(* source cut to the list of its rectangles; a collect_cut_boxes takes and *)
(* gives [boxes |-> dict], or the exception that was raised.               *)

(* Rectangle.right                                                         *)
Right(rectangle) == rectangle.x + rectangle.width

(* Cut.collect_cut_boxes                                                   *)
CutCollectCutBoxes(cut, acc, rectangle) ==
    LET Collect(boxes, key) ==
            IF DictHas(boxes, key)
            THEN IF Right(DictGet(boxes, key)[Len(DictGet(boxes, key))])
                       # rectangle.x
                 THEN Raise("ValueError")
                 ELSE [boxes |-> DictSet(boxes, key,
                                         Append(DictGet(boxes, key), rectangle))]
            ELSE [boxes |-> DictSet(boxes, key, <<rectangle>>)]
    IN  Collect(acc.boxes, GetSourceCut(cut))

(* SpaceCut.collect_cut_boxes                                              *)
SpaceCutCollectCutBoxes(space, acc, rectangle) == acc

(* The loop of PlaylistSection.collect_cut_boxes over what divide_width    *)
(* yields: pos advances only for the parts that are yielded.               *)
RECURSIVE PartsLoop(_, _, _, _, _, _)
PartsLoop(parts, pairs, k, region, acc, pos) ==
    LET Part(part, rectangle) ==
            IF pos >= region.end THEN acc
            ELSE PartsLoop(
                     parts, pairs, k + 1, region,
                     IF pos + PartLength(part) > region.start
                     THEN IF IsSpaceCut(part)
                          THEN SpaceCutCollectCutBoxes(part, acc, rectangle)
                          ELSE CutCollectCutBoxes(part, acc, rectangle)
                     ELSE acc,
                     pos + PartLength(part))
    IN  IF Raised(acc) \/ k > Len(pairs) THEN acc
        ELSE Part(parts[pairs[k].item], pairs[k].rectangle)

(* PlaylistSection.collect_cut_boxes                                       *)
PlaylistSectionCollectCutBoxes(playlist, region, acc, rectangle, pos) ==
    LET Loop(divided) ==
            IF Raised(divided) THEN divided
            ELSE PartsLoop(playlist.parts, divided.pairs, 1, region, acc, pos)
    IN  Loop(DivideWidth(rectangle,
                         [i \in DOMAIN playlist.parts |->
                            PartLength(playlist.parts[i])]))

(* The loop of MixSection.collect_cut_boxes over what divide_height yields. *)
RECURSIVE PlaylistsLoop(_, _, _, _, _, _)
PlaylistsLoop(playlists, pairs, k, region, acc, pos) ==
    IF Raised(acc) \/ k > Len(pairs) THEN acc
    ELSE PlaylistsLoop(
             playlists, pairs, k + 1, region,
             PlaylistSectionCollectCutBoxes(playlists[pairs[k].item], region,
                                            acc, pairs[k].rectangle, pos),
             pos)

(* MixSection.collect_cut_boxes                                            *)
MixSectionCollectCutBoxes(mix, region, acc, rectangle, pos) ==
    LET Loop(divided) ==
            IF Raised(divided) THEN divided
            ELSE PlaylistsLoop(mix.playlists, divided.pairs, 1, region, acc, pos)
    IN  Loop(DivideHeight(rectangle,
                          [i \in DOMAIN mix.playlists |-> mix.playlists[i].length]))

(* The loop of Sections.collect_cut_boxes over what divide_width yields.   *)
RECURSIVE SectionsCollectLoop(_, _, _, _, _, _)
SectionsCollectLoop(list, pairs, k, region, acc, pos) ==
    LET Section(section, rectangle) ==
            IF pos >= region.end THEN acc
            ELSE SectionsCollectLoop(
                     list, pairs, k + 1, region,
                     IF pos + section.length > region.start
                     THEN IF section.type = "mix"
                          THEN MixSectionCollectCutBoxes(section, region, acc,
                                                         rectangle, pos)
                          ELSE PlaylistSectionCollectCutBoxes(section, region, acc,
                                                              rectangle, pos)
                     ELSE acc,
                     pos + section.length)
    IN  IF Raised(acc) \/ k > Len(pairs) THEN acc
        ELSE Section(list[pairs[k].item], pairs[k].rectangle)

(* Sections.collect_cut_boxes                                              *)
SectionsCollectCutBoxes(s, region, acc, rectangle, pos) ==
    LET Loop(divided) ==
            IF Raised(divided) THEN divided
            ELSE SectionsCollectLoop(s.sections, divided.pairs, 1, region, acc, pos)
    IN  Loop(DivideWidth(rectangle,
                         [i \in DOMAIN s.sections |-> s.sections[i].length]))

(* Sections.to_cut_boxes                                                   *)
ToCutBoxes(s, region, rectangle) ==
    SectionsCollectCutBoxes(s, region, [boxes |-> EmptyDict], rectangle, 0)

---------------------------------------------------------------------------
(* The cut boxes specification: the Sections specification, followed by    *)
(* to_cut_boxes for a visible window and a target rectangle.               *)

BoxWindows == { Region(0, 160), Region(40, 90), Region(100, 130) }
BoxRectangles ==
    { Rectangle(0, 0, width, height) : width \in {3, 200}, height \in {1, 50} }

SToCutBoxes ==
    /\ pc = "done"
    /\ ~Raised(sections)
    /\ \E region \in BoxWindows, rectangle \in BoxRectangles :
          last' = [op |-> "to_cut_boxes", region |-> region,
                   rectangle |-> rectangle,
                   result |-> ToCutBoxes(sections, region, rectangle)]
    /\ pc' = "boxes"
    /\ UNCHANGED <<cuts, uuid_counter, sections>>
    /\ ProjectUnchanged

NextBoxes == SAdd \/ SMove \/ SSplitIntoSections \/ SToCutBoxes

SpecBoxes == InitSections /\ [][NextBoxes]_vars

(* C29: for every Cuts collection, visible window and target rectangle,    *)
(* to_cut_boxes does not raise 'Cut boxes can not have gaps', and for each *)
(* source cut every box after the first starts at the x where the previous *)
(* box of that cut ends.                                                   *)
C29_CutBoxesHaveNoGaps ==
    pc = "boxes" =>
        /\ ~Raised(last.result)
        /\ \A e \in DOMAIN last.result.boxes :
              \A k \in 2 .. Len(last.result.boxes[e].value) :
                  last.result.boxes[e].value[k].x
                      = Right(last.result.boxes[e].value[k - 1])

---------------------------------------------------------------------------
(* The overlap regions, computed without the index: every pair of cuts of  *)
(* the map is tested.                                                      *)
PairwiseOverlaps(c) ==
    LET Overlaps(pairs) ==
            [i \in DOMAIN pairs |->
                CutGetOverlap(DictGet(c.cut_map, pairs[i][1]),
                              DictGet(c.cut_map, pairs[i][2]))]
    IN  SelectSeq(Overlaps(Combinations2([i \in DOMAIN c.cut_map |->
                                             c.cut_map[i].key])),
                  LAMBDA o : ~IsNone(o))

(* C31: for every Cuts collection, the merged overlap regions that         *)
(* get_regions_with_overlap computes from the buckets of the index are the *)
(* merged regions obtained by testing every pair of cuts.                  *)
C31_BucketsFindEveryOverlap ==
    GetRegionsWithOverlap(cuts) = UnionRegionsIter(PairwiseOverlaps(cuts))

(* Three cuts with two separate overlap regions; one overlapping pair is a *)
(* cut listed in both buckets and a cut listed in the second bucket only.  *)
C31_Witness ==
    /\ Len(cuts.cut_map) = 3
    /\ Len(GetRegionsWithOverlap(cuts)) = 2
    /\ \E i, j \in DOMAIN cuts.cut_map :
          /\ ~IsNone(CutGetOverlap(cuts.cut_map[i].value, cuts.cut_map[j].value))
          /\ GetGroups(CutRegion(cuts.cut_map[i].value), cuts.region_group_size)
                = {0, 1}
          /\ GetGroups(CutRegion(cuts.cut_map[j].value), cuts.region_group_size)
                = {1}

---------------------------------------------------------------------------
(* The UnionRegions specification: regions built by Region's constructor   *)
(* are added to a UnionRegions, which is iterated; last keeps the list     *)
(* built by add and what the iteration yielded.                            *)

MaxUnionRegions == 3
MaxUnionCoord == 5

UnionInputs ==
    { Region(start, end) : start \in 0 .. (MaxUnionCoord - 1),
                           end \in 1 .. MaxUnionCoord } \ { Raise("ValueError") }

(* UnionRegions.__init__                                                   *)
InitUnion ==
    /\ last = [op |-> "init", regions |-> << >>]
    /\ pc = "union"
    /\ cuts = Unused /\ sections = Unused /\ uuid_counter = Unused
    /\ ProjectUnused

(* UnionRegions.add                                                        *)
UnionAdd ==
    /\ pc = "union"
    /\ Len(last.regions) < MaxUnionRegions
    /\ \E region \in UnionInputs :
          last' = [op |-> "add", regions |-> Append(last.regions, region)]
    /\ UNCHANGED <<cuts, sections, uuid_counter, pc>>
    /\ ProjectUnchanged

(* list(union_regions)                                                     *)
UnionIter ==
    /\ pc = "union"
    /\ last' = [op |-> "iter", regions |-> last.regions,
                result |-> UnionRegionsIter(last.regions)]
    /\ UNCHANGED <<cuts, sections, uuid_counter, pc>>
    /\ ProjectUnchanged

NextUnion == UnionAdd \/ UnionIter

SpecUnion == InitUnion /\ [][NextUnion]_vars

(* The frames a list of regions covers.                                    *)
FramesOf(list) == UNION { list[i].start .. (list[i].end - 1) : i \in DOMAIN list }

(* The same regions added in every other order.                            *)
Reorderings(list) ==
    { [i \in DOMAIN list |-> list[f[i]]] :
        f \in { g \in [DOMAIN list -> DOMAIN list] :
                   \A i, j \in DOMAIN list : i # j => g[i] # g[j] } }

(* C32: for any regions added in any order, iteration yields regions in    *)
(* strictly ascending start order, each ending before the next one starts  *)
(* with at least one frame between them (disjoint and non-adjacent), that  *)
(* cover exactly the frames of the added regions; adding the same regions  *)
(* in any other order yields the same list.                                *)
C32_UnionIsSortedDisjointCover ==
    (pc = "union" /\ last.op = "iter") =>
        /\ \A k \in DOMAIN last.result :
              /\ last.result[k].start < last.result[k].end
              /\ k > 1 => last.result[k - 1].end < last.result[k].start
        /\ FramesOf(last.result) = FramesOf(last.regions)
        /\ \A other \in Reorderings(last.regions) :
              UnionRegionsIter(other) = last.result

(* Three regions added in descending start order: the first two added are  *)
(* adjacent and come out as one region, the last added comes out first.    *)
C32_Witness ==
    /\ pc = "union" /\ last.op = "iter"
    /\ Len(last.regions) = 3
    /\ last.regions[1].start > last.regions[2].start
    /\ last.regions[2].start > last.regions[3].start
    /\ last.regions[2].end = last.regions[1].start
    /\ Len(last.result) = 2
    /\ last.result[1] = last.regions[3]

---------------------------------------------------------------------------
(* C33: for every cut c and window w, create_cut(w) returns nothing when   *)
(* c.region and w do not overlap, c itself when w contains c.region, and   *)
(* otherwise a cut with c's id whose region is the overlap of c.region and *)
(* w, whose in_out is the part of c.in_out at the same offset and of the   *)
(* same length as the overlap, whose source is c and whose get_source_cut  *)
(* is c's root cut.                                                        *)
C33_CreateCutContract ==
    (pc = "applied" /\ last.op = "create_cut") =>
        LET c == last.input
            w == last.arg
            lo == Max(CutStart(c), w.start)
            hi == Min(CutEnd(c), w.end)
        IN  IF hi <= lo THEN IsNone(last.result)
            ELSE IF w.start <= CutStart(c) /\ CutEnd(c) <= w.end
            THEN last.result = c
            ELSE /\ ~Raised(last.result) /\ ~IsNone(last.result)
                 /\ last.result.id = c.id
                 /\ CutRegion(last.result) = [start |-> lo, end |-> hi]
                 /\ last.result.in_out
                       = [start |-> c.in_out.start + (lo - CutStart(c)),
                          end |-> c.in_out.start + (hi - CutStart(c))]
                 /\ last.result.source = c
                 /\ GetSourceCut(last.result) = GetSourceCut(c)

(* A sub-cut of a sub-cut: the window cuts frames off the left of a cut    *)
(* that is itself a part of its root cut and starts after the root's in    *)
(* point.                                                                  *)
C33_Witness ==
    /\ pc = "applied" /\ last.op = "create_cut"
    /\ SourceIsCut(last.input)
    /\ last.input.in_out.start > last.input.source.in_out.start
    /\ ~IsNone(last.result) /\ ~Raised(last.result)
    /\ last.result.source = last.input
    /\ CutStart(last.result) > CutStart(last.input)
    /\ GetSourceCut(last.result) = last.input.source

---------------------------------------------------------------------------
(* Drag specification: the mouse protocol of the cut actions               *)
(* (domain/cut.py, CutDragActionBase and its subclasses) and of Timeline   *)
(* (gui/generic.py) on a Project with three committed text clips.          *)
(* ResizeRightAction is not modelled: move_right returns the cut as it is  *)
(* and resize_right computes a float speed.                                *)

(* Pointer positions, in pixels, and Scrollbar.one_length_in_pixels.       *)
DragStartXs == { 10 }
DragXs == { 0, 10, 30 }
OneLengthInPixels == { 1, 2 }
DragClasses == { "CutAction", "ResizeLeftAction" }

(* The largest number of presses of the mouse button in the model.         *)
MaxDrags == 2

(* Project.new() and three add_text_clip calls in one with block.          *)
DragProject ==
    LET p0 == [project_data |-> ProjectDataEmpty, current_transaction |-> None,
               disk |-> [path |-> None, file |-> NoFile],
               background_worker |-> "non_threaded",
               mlt_producers |-> EmptyDict, jobs |-> << >>,
               current_job |-> None, threads |-> << >>, main_queue |-> << >>,
               ev |-> NoEffects]
        Clip(p) == TransactionAddTextClip(p, "hello", 10, NoId)
    IN  [TransactionExit(Clip(Clip(Clip(ProjectNewTransaction(p0, TRUE)))),
                         "none")
         EXCEPT !.ev = NoEffects]

(* Scrollbar.one_length_in_pixels of a Timeline as constructed.            *)
TimelineOneLengthInPixels == 1

(* A Transaction object some caller holds a reference to.                  *)
TransactionObject == [object |-> "Transaction"]

(* int(x) of a quotient: truncation towards zero.                          *)
IntTrunc(num, den) ==
    IF num >= 0 THEN num \div den ELSE -((-num) \div den)

(* modify_cut_on_drag of CutAction and of ResizeLeftAction, as the         *)
(* function that Transaction.modify is given; resize_left returns the cut  *)
(* unchanged.                                                              *)
ModifyCutOnDrag(action, delta) ==
    IF action.class = "CutAction" THEN [op |-> "move", arg |-> delta]
    ELSE IF action.ctrl THEN [op |-> "resize_left", arg |-> delta]
    ELSE [op |-> "move_left", arg |-> delta]

(* Transaction.get_cut_ids with the matcher of CutAction.drag_operation:   *)
(* the ids of cut_map, in its order, whose cut starts at or after start.   *)
TransactionGetCutIds(p, start) ==
    LET matching == SelectSeq(p.project_data.cuts.cut_map,
                              LAMBDA e : CutStart(e.value) >= start)
    IN  [i \in DOMAIN matching |-> matching[i].key]

(* The loop of CutAction.drag_operation with ctrl held.                    *)
RECURSIVE ModifyEach(_, _, _)
ModifyEach(p, cut_ids, fn) ==
    IF cut_ids = << >> THEN p
    ELSE LET p1 == TransactionModify(p, Head(cut_ids), fn)
         IN  IF Failed(p1) THEN p1 ELSE ModifyEach(p1, Tail(cut_ids), fn)

(* CutDragActionBase.drag_operation and CutAction.drag_operation           *)
DragOperation(p, action, delta) ==
    IF action.class = "CutAction" /\ action.ctrl
    THEN ModifyEach(p, TransactionGetCutIds(p, CutStart(action.cut)),
                    [op |-> "move", arg |-> delta])
    ELSE TransactionModify(p, action.cut.id, ModifyCutOnDrag(action, delta))

(* CutDragActionBase.left_mouse_down on the action drawn for cut           *)
CutDragLeftMouseDown(p, class, cut, one_length_in_pixels, x, ctrl) ==
    LET p1 == ProjectNewTransaction(p, FALSE)
    IN  IF Failed(p1) THEN p1
        ELSE [p1 EXCEPT !.down_action =
                 [class |-> class, cut |-> cut,
                  one_length_in_pixels |-> one_length_in_pixels,
                  transaction |-> TransactionObject, x |-> x, ctrl |-> ctrl]]

(* CutDragActionBase.mouse_move; with no action pressed the action under   *)
(* the pointer gets the call and its transaction is None.                  *)
CutDragMouseMove(p, x) ==
    IF IsNone(p.down_action) \/ IsNone(p.down_action.transaction) THEN p
    ELSE DragOperation(TransactionReset(p), p.down_action,
                       RoundHalfEven(x - p.down_action.x,
                                     p.down_action.one_length_in_pixels))

(* CutDragActionBase.mouse_up                                              *)
CutDragMouseUp(p) ==
    IF IsNone(p.down_action) \/ IsNone(p.down_action.transaction) THEN p
    ELSE LET p1 == TransactionCommit(p, "none")
         IN  IF Failed(p1) THEN p1
             ELSE [p1 EXCEPT !.down_action.transaction = None]

(* Timeline.mouse_move for a press on a cut or on nothing. rollback        *)
(* resets and then releases the transaction (cleanup sets its project to   *)
(* None), so the modify that follows, and every later call on the same     *)
(* Transaction object, raises AttributeError.                              *)
TimelineMouseMove(p, x) ==
    IF IsNone(p.timeline.tmp_cut) THEN p
    ELSE IF IsNone(p.current_transaction) THEN Throw(p, "AttributeError")
    ELSE Throw(TransactionRollback(p), "AttributeError")

(* Timeline.left_mouse_down; target is what rectangle_map.get returns.     *)
TimelineLeftMouseDown(p, x, target) ==
    LET p1 == ProjectNewTransaction([p EXCEPT !.timeline.tmp_xy = x], FALSE)
    IN  IF Failed(p1) THEN p1
        ELSE TimelineMouseMove(
                 [p1 EXCEPT !.timeline.tmp_transaction = TransactionObject,
                            !.timeline.tmp_cut = target], x)

(* Timeline.mouse_up: commit on a released Transaction raises before the   *)
(* tmp_ fields are cleared.                                                *)
TimelineMouseUp(p) ==
    LET cleared == [tmp_xy |-> None, tmp_transaction |-> None,
                    tmp_cut |-> None]
    IN  IF IsNone(p.timeline.tmp_transaction)
        THEN [p EXCEPT !.timeline = cleared]
        ELSE IF IsNone(p.current_transaction) THEN Throw(p, "AttributeError")
        ELSE LET p1 == TransactionCommit(p, "none")
             IN  IF Failed(p1) THEN p1 ELSE [p1 EXCEPT !.timeline = cleared]

(* The Project and whichever of the two drag implementations is in use.    *)
TheDrag ==
    [down_action |-> down_action, timeline |-> timeline] @@ TheProject

InitDrag ==
    /\ project_data = DragProject.project_data
    /\ current_transaction = None
    /\ disk = DragProject.disk
    /\ background_worker = DragProject.background_worker
    /\ mlt_producers = DragProject.mlt_producers
    /\ jobs = << >> /\ current_job = None
    /\ threads = << >> /\ main_queue = << >>
    /\ \/ down_action = None /\ timeline = Unused
       \/ /\ down_action = Unused
          /\ timeline = [tmp_xy |-> None, tmp_transaction |-> None,
                         tmp_cut |-> None]
    /\ last = [op |-> "init", changed |-> FALSE, pressed |-> FALSE,
               drags |-> 0, x |-> 0,
               snapshot |-> DragProject.project_data] @@ NoEffects
    /\ uuid_counter = Unused /\ cuts = Unused /\ sections = Unused
    /\ rectangle_map = Unused
    /\ pc = "drag"

(* A mouse handler ran and left the Project and the drag object as p.      *)
(* last keeps the pointer position, whether the button is held, how often  *)
(* it went down and the data the last press found.                         *)
DragHandler(op, x, p) ==
    /\ op = "left_mouse_down" => last.drags < MaxDrags
    /\ project_data' = p.project_data
    /\ current_transaction' = p.current_transaction
    /\ mlt_producers' = p.mlt_producers
    /\ down_action' = p.down_action
    /\ timeline' = p.timeline
    /\ last' = [op |-> op, changed |-> p.project_data # project_data,
                pressed |-> IF op = "left_mouse_down" THEN TRUE
                            ELSE IF op = "mouse_up" THEN FALSE
                            ELSE last.pressed,
                drags |-> IF op = "left_mouse_down" THEN last.drags + 1
                          ELSE last.drags,
                x |-> x,
                snapshot |-> IF op = "left_mouse_down" THEN project_data
                             ELSE last.snapshot] @@ p.ev
    /\ UNCHANGED <<disk, background_worker, jobs, current_job, threads,
                   main_queue, uuid_counter, cuts, sections, rectangle_map,
                   pc>>

DrawnCuts == { project_data.cuts.cut_map[i].value :
                   i \in DOMAIN project_data.cuts.cut_map }

(* The button goes down on the action of a cut.                            *)
DragLeftMouseDown ==
    /\ pc = "drag" /\ down_action # Unused /\ ~last.pressed
    /\ \E class \in DragClasses, cut \in DrawnCuts,
          one_length_in_pixels \in OneLengthInPixels, x \in DragStartXs,
          ctrl \in BOOLEAN :
          DragHandler("left_mouse_down", x,
                      CutDragLeftMouseDown(TheDrag, class, cut,
                                           one_length_in_pixels, x, ctrl))

DragMouseMove ==
    /\ pc = "drag" /\ down_action # Unused
    /\ \E x \in DragXs :
          DragHandler("mouse_move", x, CutDragMouseMove(TheDrag, x))

DragMouseUp ==
    /\ pc = "drag" /\ down_action # Unused /\ last.pressed
    /\ DragHandler("mouse_up", last.x, CutDragMouseUp(TheDrag))

TimelineDown ==
    /\ pc = "drag" /\ timeline # Unused /\ ~last.pressed
    /\ \E x \in DragStartXs, target \in DrawnCuts \cup {None} :
          DragHandler("left_mouse_down", x,
                      TimelineLeftMouseDown(TheDrag, x, target))

TimelineMove ==
    /\ pc = "drag" /\ timeline # Unused
    /\ \E x \in DragXs :
          DragHandler("mouse_move", x, TimelineMouseMove(TheDrag, x))

TimelineUp ==
    /\ pc = "drag" /\ timeline # Unused /\ last.pressed
    /\ DragHandler("mouse_up", last.x, TimelineMouseUp(TheDrag))

NextDrag ==
    \/ DragLeftMouseDown \/ DragMouseMove \/ DragMouseUp
    \/ TimelineDown \/ TimelineMove \/ TimelineUp

SpecDrag == InitDrag /\ [][NextDrag]_vars

(* What the drag in progress has to show at pointer position x: the data   *)
(* the press found, with the drag operation of the pressed action (or the  *)
(* move of the cut Timeline was pressed on) applied once for the offset    *)
(* of x from the press.                                                    *)
DragExpected(x) ==
    LET before == [TheDrag EXCEPT !.project_data = last.snapshot]
        Moved(pd) == IF Raised(pd) THEN last.snapshot ELSE pd
    IN  IF down_action # Unused
        THEN DragOperation(before, down_action,
                           RoundHalfEven(x - down_action.x,
                                         down_action.one_length_in_pixels)
                          ).project_data
        ELSE IF IsNone(timeline.tmp_cut) THEN last.snapshot
        ELSE Moved(ProjectDataModifyCut(
                       last.snapshot, timeline.tmp_cut.id,
                       [op |-> "move",
                        arg |-> IntTrunc(x - timeline.tmp_xy,
                                         TimelineOneLengthInPixels)]))

(* C34: during a drag, after each mouse_move the project's data is the     *)
(* data the press found with the drag operation applied once for the       *)
(* current pointer offset, whatever the earlier samples were; mouse_up     *)
(* commits that state and releases the transaction; a mouse_move with the  *)
(* button up does not change the project.                                  *)
C34_DragDerivesFromSnapshot ==
    /\ [](pc = "drag" /\ last.op = "mouse_move" /\ last.pressed
            => project_data = DragExpected(last.x))
    /\ [][pc = "drag" /\ last.pressed /\ last'.op = "mouse_up"
            => /\ project_data' = project_data
               /\ IsNone(current_transaction')
               /\ last'.raised = "none"
               /\ last'.producer_changed_event = 1]_vars
    /\ [][pc = "drag" /\ ~last.pressed /\ last'.op = "mouse_move"
            => project_data' = project_data]_vars

(* The same for the cut actions of domain/cut.py alone.                    *)
CutActionsDeriveFromSnapshot ==
    /\ [](pc = "drag" /\ down_action # Unused /\ last.op = "mouse_move"
                      /\ last.pressed
            => project_data = DragExpected(last.x))
    /\ [][pc = "drag" /\ down_action # Unused /\ last.pressed
                      /\ last'.op = "mouse_up"
            => /\ project_data' = project_data
               /\ IsNone(current_transaction')
               /\ last'.raised = "none"
               /\ last'.producer_changed_event = 1]_vars
    /\ [][pc = "drag" /\ down_action # Unused /\ ~last.pressed
                      /\ last'.op = "mouse_move"
            => project_data' = project_data]_vars

---------------------------------------------------------------------------
(* Clips specification: add_text_clip, add_clip and moves of cuts in the   *)
(* transactions of a Project created by Project.new().                     *)

(* The largest number of sources of the model.                             *)
MaxClips == 3

ClipsTextLengths == { 0, 10 }
ClipsFileLengths == { 20 }
ClipsMoveDeltas == { -10 }

InitClips ==
    /\ project_data = ProjectDataEmpty
    /\ current_transaction = None
    /\ disk = [path |-> None, file |-> NoFile]
    /\ background_worker = "non_threaded"
    /\ mlt_producers = EmptyDict
    /\ jobs = << >> /\ current_job = None
    /\ threads = << >> /\ main_queue = << >>
    /\ last = [op |-> "init", changed |-> FALSE, length |-> 0,
               before |-> ProjectDataEmpty] @@ NoEffects
    /\ uuid_counter = Unused /\ cuts = Unused /\ sections = Unused
    /\ rectangle_map = Unused
    /\ down_action = Unused /\ timeline = Unused
    /\ pc = "clips"

(* A call on the Project or its transaction ran and left the Project as    *)
(* p; last keeps the length given and the data an add call found.          *)
ClipsHandler(op, length, p) ==
    /\ Len(p.project_data.sources.id_to_source) <= MaxClips
    /\ project_data' = p.project_data
    /\ current_transaction' = p.current_transaction
    /\ mlt_producers' = p.mlt_producers
    /\ last' = [op |-> op, changed |-> p.project_data # project_data,
                length |-> length,
                before |-> IF op \in {"add_text_clip", "add_clip"}
                           THEN project_data ELSE ProjectDataEmpty] @@ p.ev
    /\ UNCHANGED <<disk, background_worker, jobs, current_job, threads,
                   main_queue, uuid_counter, cuts, sections, rectangle_map,
                   down_action, timeline, pc>>

ClipsNewTransaction ==
    /\ pc = "clips"
    /\ \E in_with_block \in BOOLEAN :
          ClipsHandler("new_transaction", 0,
                       ProjectNewTransaction(TheProject, in_with_block))

ClipsAddTextClip ==
    /\ pc = "clips" /\ InTransaction
    /\ \E length \in ClipsTextLengths, id \in ExplicitIds \cup {NoId} :
          ClipsHandler("add_text_clip", length,
                       WithBody(TransactionAddTextClip(TheProject, "hello",
                                                       length, id)))

ClipsAddClip ==
    /\ pc = "clips" /\ InTransaction
    /\ \E length \in ClipsFileLengths :
          ClipsHandler("add_clip", length,
                       WithBody(TransactionAddClip(TheProject, "one.mp4",
                                                   length, NoId)))

ClipsModify ==
    /\ pc = "clips" /\ InTransaction
    /\ \E cut_id \in DictKeys(project_data.cuts.cut_map),
          delta \in ClipsMoveDeltas :
          ClipsHandler("modify", 0,
                       WithBody(TransactionModify(
                                    TheProject, cut_id,
                                    [op |-> "move", arg |-> delta])))

ClipsCommit ==
    /\ pc = "clips" /\ InTransaction
    /\ ClipsHandler("commit", 0, TransactionCommit(TheProject, "none"))

NextClips ==
    \/ ClipsNewTransaction \/ ClipsAddTextClip \/ ClipsAddClip
    \/ ClipsModify \/ ClipsCommit

SpecClips == InitClips /\ [][NextClips]_vars

(* C35: an add_text_clip or add_clip call that returns has added exactly   *)
(* one source and exactly one cut, whose in_out is [0, length) and whose   *)
(* position is the Cuts.end the call found; the cuts that were there are   *)
(* unchanged and none overlaps the new one; Cuts.end has grown by length;  *)
(* the value returned is the id of the new cut.                            *)
C35_AddClipAppendsAtEnd ==
    pc = "clips" /\ last.op \in {"add_text_clip", "add_clip"}
                 /\ last.raised = "none"
    => LET old == last.before
           new == project_data
           old_ids == DictKeys(old.cuts.cut_map)
           new_ids == DictKeys(new.cuts.cut_map)
           added == DictGet(new.cuts.cut_map, last.returned)
       IN  /\ Len(new.sources.id_to_source) = Len(old.sources.id_to_source) + 1
           /\ DictKeys(old.sources.id_to_source)
                 \subseteq DictKeys(new.sources.id_to_source)
           /\ new_ids = old_ids \cup {last.returned}
           /\ last.returned \notin old_ids
           /\ \A id \in old_ids :
                 DictGet(new.cuts.cut_map, id) = DictGet(old.cuts.cut_map, id)
           /\ added.id = last.returned
           /\ added.in_out = [start |-> 0, end |-> last.length]
           /\ added.position = CutsEnd(old.cuts)
           /\ added.source.source_id
                 \in DictKeys(new.sources.id_to_source)
                        \ DictKeys(old.sources.id_to_source)
           /\ \A id \in old_ids :
                 LET other == DictGet(old.cuts.cut_map, id)
                 IN  CutEnd(other) <= CutStart(added)
                        \/ CutEnd(added) <= CutStart(other)
           /\ CutsEnd(new.cuts) = CutsEnd(old.cuts) + last.length

(* A clip of length 10 has been added, as the third, to a project whose    *)
(* two cuts overlap each other and end at frame 20.                        *)
C35_Witness ==
    /\ pc = "clips" /\ last.op = "add_text_clip" /\ last.raised = "none"
    /\ last.length = 10
    /\ Len(last.before.cuts.cut_map) = 2
    /\ Len(project_data.cuts.cut_map) = 3
    /\ CutsEnd(last.before.cuts) = 20
    /\ DictGet(project_data.cuts.cut_map, last.returned).position
          = CutsEnd(last.before.cuts)

---------------------------------------------------------------------------
(* The BackgroundWorker specification under the conditions of a run in     *)
(* which every work_fn returns and the main loop keeps running: a thread   *)
(* that was started runs work_fn to its end, and a callback handed to      *)
(* on_main_thread_fn is run.                                               *)

(* work_fn calls progress.                                                 *)
WorkFnProgress == WorkerThread /\ threads' = threads

(* work_fn returns and worker hands on_job_done to the main thread.        *)
WorkFnReturns ==
    WorkerThread /\ Len(main_queue') > Len(main_queue) /\ threads' # threads

NextWorkerLive == DoAdd \/ WorkFnProgress \/ WorkFnReturns \/ MainThread

SpecWorkerLive ==
    /\ InitWorker
    /\ [][NextWorkerLive]_vars
    /\ WF_vars(WorkFnReturns)
    /\ WF_vars(MainThread)

(* The job that loads source_id waits in BackgroundWorker.jobs.            *)
JobPending(source_id) == \E i \in DOMAIN jobs : jobs[i].source_id = source_id

(* The result_fn of a job that loads source_id has run: store has put the  *)
(* producer that work_fn returned into the cache.                          *)
ResultStored(source_id) ==
    DictGetDefault(mlt_producers, source_id, "absent") = "producer"

(* C36: when every work_fn returns and the main thread keeps running the   *)
(* callbacks handed to it, a job added to the worker eventually has its    *)
(* result_fn run, and each delivery on the main thread is the delivery of  *)
(* one result that a work_fn returned.                                     *)
C36_EveryJobIsDelivered ==
    /\ \A source_id \in JobSourceIds :
          [](JobPending(source_id) => <>ResultStored(source_id))
    /\ [][last'.op = "on_job_done"
             => /\ main_queue # << >>
                /\ Head(main_queue).fn = "on_job_done"
                /\ DictGetDefault(mlt_producers', Head(main_queue).source_id,
                                  "absent") = "producer"
                /\ QueuedResults' = QueuedResults - 1]_vars

---------------------------------------------------------------------------
(* C37: whenever the listeners of producer_changed are called, every       *)
(* source id of the current ProjectData has an entry in mlt_producers, a   *)
(* loading placeholder or a producer.                                      *)
C37_ListenersFindEverySourceCached ==
    last.producer_changed_event > 0 => last.uncached = {}

---------------------------------------------------------------------------
(* C38: the keys of the cache are always among the ids given to the most   *)
(* recent ensure_present: when ensure_present ends, the keys are among its *)
(* ids, and no other step (a worker thread, the delivery of a load result  *)
(* on the main thread) adds a key.                                         *)
C38_CacheKeysAmongLatestIds ==
    [][pc = "loader" =>
          IF last'.op = "ensure_present"
          THEN DictKeys(mlt_producers')
                  \subseteq {last'.ids[i] : i \in DOMAIN last'.ids}
          ELSE DictKeys(mlt_producers') \subseteq DictKeys(mlt_producers)]_vars

---------------------------------------------------------------------------
(* Split specification: Project.split, with the cut and the position the   *)
(* caller chose, on the Project with three text clips of ten frames.       *)

SplitAts == { 0, 5, 10, 15, 20, 25, 30, 35 }

InitSplit ==
    /\ project_data = DragProject.project_data
    /\ current_transaction = None
    /\ disk = DragProject.disk
    /\ background_worker = DragProject.background_worker
    /\ mlt_producers = DragProject.mlt_producers
    /\ jobs = << >> /\ current_job = None
    /\ threads = << >> /\ main_queue = << >>
    /\ last = [op |-> "init", changed |-> FALSE, cut |-> None, at |-> 0,
               before |-> DragProject.project_data] @@ NoEffects
    /\ uuid_counter = Unused /\ cuts = Unused /\ sections = Unused
    /\ rectangle_map = Unused
    /\ down_action = Unused /\ timeline = Unused
    /\ pc = "split"

(* Project.split(cut.id, at), as split at playhead calls it for the cut    *)
(* selected and the position of the playhead.                              *)
SplitAtPlayhead ==
    /\ pc = "split"
    /\ \E cut \in DrawnCuts, at \in SplitAts :
          LET Returned(p) ==
                  /\ project_data' = p.project_data
                  /\ current_transaction' = p.current_transaction
                  /\ mlt_producers' = p.mlt_producers
                  /\ last' = [op |-> "Project.split",
                              changed |-> p.project_data # project_data,
                              cut |-> cut, at |-> at,
                              before |-> project_data] @@ p.ev
          IN  Returned(ProjectSplit(TheProject, cut.id, at, "none"))
    /\ UNCHANGED <<disk, background_worker, jobs, current_job, threads,
                   main_queue, uuid_counter, cuts, sections, rectangle_map,
                   down_action, timeline, pc>>

NextSplit == SplitAtPlayhead

SpecSplit == InitSplit /\ [][NextSplit]_vars

(* The position given to the last split is not inside the cut.             *)
SplitOutsideCut ==
    /\ pc = "split" /\ last.op = "Project.split"
    /\ (last.at <= CutStart(last.cut) \/ last.at >= CutEnd(last.cut))

(* C39: a split at a position at or before the start of the cut, or at or  *)
(* after its end, fails with an error in Cuts.split, no half without       *)
(* frames is produced, and Project.split leaves the ProjectData as it was  *)
(* and the Project without a transaction.                                  *)
C39_SplitOutsideCutFails ==
    SplitOutsideCut =>
        /\ Raised(CutsSplit(last.before.cuts, last.cut.id, last.at, 0, 0))
        /\ last.raised = "ValueError"
        /\ project_data = last.before
        /\ IsNone(current_transaction)
        /\ \A i \in DOMAIN project_data.cuts.cut_map :
              CutLength(project_data.cuts.cut_map[i].value) > 0

(* A split at the end of a cut, in a project that an earlier split has     *)
(* left with four cuts, was refused.                                       *)
C39_Witness ==
    /\ SplitOutsideCut
    /\ last.at = CutEnd(last.cut)
    /\ last.raised = "ValueError"
    /\ Len(project_data.cuts.cut_map) = 4

============================================================================
